---- MODULE Spec2Model ----
(***************************************************************************)
(* az-acme-tool: the CA protocol client (src/src/az_acme_tool/             *)
(* acme_client.py) and the commands built on it (init_command.py,          *)
(* issue_command.py, renew_command.py, status_command.py) as state         *)
(* machines.                                                               *)
(*                                                                         *)
(* One AcmeClient object and the account key file it uses.  An operation   *)
(* of the client is started from the idle state, runs step by step (every  *)
(* call to the CA and every time.sleep is a step of its own and is         *)
(* appended to `trace`), and ends in pc = "done" with `result` holding     *)
(* what the caller sees: a returned value, an AcmeError, or an exception   *)
(* of another kind that escaped ("raw").  The CA is the environment: the   *)
(* outcome of each call to it is chosen nondeterministically.              *)
(*                                                                         *)
(* Time is a discrete wall clock `now`, counted from the start of the      *)
(* operation.  It advances while the process sleeps and while it waits     *)
(* for the CA; the statements between take no time.                        *)
(*                                                                         *)
(* A command (run_init, run_issue, run_renew) runs the same way one level  *)
(* up: `cmd` and `cpc` are the command and the place it has reached,       *)
(* `cmd_result` is what the process ends with.  A method of an             *)
(* AzureGatewayClient (azure_gateway.py) runs likewise under `gop` and     *)
(* `gpc` against `arm`, the gateways as the control plane holds them;      *)
(* cleanup_command.py runs on top of it.  The challenge responder          *)
(* (src/azure-function/function_app.py) answers requests from its          *)
(* application setting.                                                    *)
(*                                                                         *)
(* Spec          every operation of the client that talks to the CA        *)
(* FairSpec      Spec with the fairness of a running thread (termination)  *)
(* SpecChallenge get_http01_challenge over the orders a CA can hand out    *)
(* SpecInit      runs of init and of register_account on one key file      *)
(* SpecIssue     runs of issue over the configurations an operator writes  *)
(* SpecRenew     runs of renew over them and over what the gateways list   *)
(* SpecStatus    the classification of a listed certificate by status      *)
(* SpecAgree     renew with its default options next to status, on the    *)
(*               same certificate at the same time                         *)
(* SpecGateway   the methods of a gateway client on a gateway as found     *)
(* SpecWriters   the same with a second writer of the same gateway         *)
(* SpecCleanup   passes of cleanup over the rules left on the gateways     *)
(* SpecResponder requests to the challenge responder                       *)
(* SpecPipeline  runs of issue with the pipeline of section 4.4 of the     *)
(*               specification in the place of the placeholder             *)
(***************************************************************************)
EXTENDS Integers, Sequences, FiniteSets, TLC

\* ------------------------------------------------------------------ bounds

\* poll_until_valid is started with timeout_seconds in 0..MaxTimeout
MaxTimeout == 3
\* ... and interval_seconds in 0..MaxInterval
MaxInterval == 7
\* one poll_authorizations call takes 0..MaxPollDur ticks of the clock
MaxPollDur == 1
\* at most this many polls of one call take no time at all when the sleep
\* between them takes none either (the wall clock does advance)
MaxInstantPolls == 2
\* an order holds at most MaxAuthz authorizations
MaxAuthz == 2
\* ... and at most MaxChall challenges over all its authorizations
MaxChall == 3
\* the key file is written at most MaxWrites times
MaxWrites == 2
\* the configuration holds at most MaxGateways gateways
MaxGateways == 2
\* ... and at most MaxDomains domain entries over all its gateways
MaxDomains == 3
\* renew is run on configurations of at most MaxRenewDomains domain entries
MaxRenewDomains == 2
\* the clock ticks TicksPerDay times a day
TicksPerDay == 2
\* status sees certificates that expired up to MaxDaysPast days ago
MaxDaysPast == 2
\* ... or that expire up to MaxDaysAhead days from now
MaxDaysAhead == 32
\* the gateways hold at most MaxArm child resources (certificates,
\* listeners, path maps, path rules) in all
MaxArm == 5
\* the responder answers at most MaxRequests requests
MaxRequests == 2

\* ------------------------------------------------------- program constants

MAX_RETRIES == 3
RETRY_BASE_DELAY_S == 10
EXPIRY_THRESHOLD_DAYS == 30
\* the default of --days of renew
DEFAULT_DAYS == 30

\* ------------------------------------------------------------- value sets

\* RSA account keys (the content of a well-formed key file)
Keys == {"k1", "k2"}
\* what a key file found at start holds: an RSA key, a key of another type,
\* or no PEM at all
InitialContents == {"k1", "ec", "garbage"}
\* exceptions raised by the CA library are told apart by an id
ErrIds == {"e1", "e2"}
\* values a successful CA call returns
RetVals == {"v1", "v2"}
\* account URLs the CA hands out
Urls == {"acct1", "acct2"}

VARIABLES
    op,               \* the AcmeClient operation in progress, "idle" if none
    pc,               \* the place the operation has reached
    account_key,      \* self._account_key ("none" for None)
    acme_client,      \* self._acme_client ("none" for None)
    net_account,      \* self._acme_client.net.account
    keyfile,          \* the file at account_key_path
    genkey,           \* _load_or_generate_account_key: the generated key
    account_url,      \* register_account: exc.location of the conflict
    attempt,          \* _with_retry: the loop variable
    last_exc,         \* _with_retry: last_exc
    challb,           \* answer_challenge: the type of challb.chall
    order,            \* get_http01_challenge: order.authorizations
    domain,           \* get_http01_challenge: domain
    timeout_seconds,  \* poll_until_valid: timeout_seconds
    interval_seconds, \* poll_until_valid: interval_seconds
    deadline,         \* poll_until_valid: deadline
    now,              \* the wall clock
    trace,            \* the CA calls and sleeps of the operation, in order
    result,           \* what the operation returned or raised
    cmd,              \* the command in progress, "idle" if none
    cpc,              \* the place the command has reached
    cmd_result,       \* what the command returned or raised
    confirm,          \* run_init: the answer to the overwrite prompt, if asked
    keyfile_before,   \* history: the key file when the operation started
    created,          \* history: the content of the key file at creation
    config,           \* the configuration file: config.gateways
    gateway_filter,   \* run_issue, run_renew: gateway ("none" for None)
    domain_filter,    \* run_issue, run_renew: domain ("none" for None)
    dry_run,          \* run_issue: dry_run
    targets,          \* run_issue, run_renew: targets
    idx,              \* the position of the loop "for target in targets"
    succeeded,        \* run_issue: succeeded
    failed,           \* run_issue, run_renew: failed
    total,            \* run_issue, run_renew: total
    issued,           \* the targets _issue_single_domain was called with
    echoed,           \* the lines echoed for the targets, in order
    force,            \* run_renew: force
    days,             \* run_renew: days
    renewed,          \* run_renew: renewed
    skipped,          \* run_renew: skipped
    cert_cache,       \* run_renew: cert_cache
    fetched,          \* the gateways list_certificates was called on, in order
    cert,             \* _collect_status: cert, an entry of a listing
    days_remaining,   \* _collect_status: days_remaining
    status,           \* _collect_status: status ("none" before it is set)
    arm,              \* the control plane: the resource of each gateway
    gw_name,          \* AzureGatewayClient: self._gateway_name
    gop,              \* the method of the gateway client in progress
    gpc,              \* the place the method has reached
    gateway,          \* the methods' local: the fetched ApplicationGateway
    gargs,            \* the arguments of the method
    gtrace,           \* the control-plane calls of the method, in order
    gresult,          \* what the method returned or raised
    arm_before,       \* history: the control plane when the method started
    cleanup_all,      \* run_cleanup: cleanup_all
    gw_idx,           \* the position of "for gateway_cfg in config.gateways"
    rules,            \* run_cleanup: rules
    rule_idx,         \* run_cleanup: i
    total_found,      \* run_cleanup: total_found
    total_removed,    \* run_cleanup: total_removed
    ctrace,           \* history: the control-plane calls of the pass, in short
    pass_start,       \* history: the control plane when the pass started
    last_pass,        \* history: the last pass of cleanup that is over
    app_setting,      \* the application setting ACME_CHALLENGE_RESPONSE
    served,           \* history: the requests the responder answered
    step,             \* the issuance pipeline: the step to run next, 0 if none
    key_auth,         \* the issuance pipeline: the key-authorization
    steps,            \* history: the steps the pipeline of the target ran
    other_write       \* history: what another invocation pushed meanwhile

\* the client, the key file and the operation in progress
acmeVars == <<op, pc, account_key, acme_client, net_account, keyfile, genkey,
              account_url, attempt, last_exc, challb, order, domain,
              timeout_seconds, interval_seconds, deadline, now, trace, result>>
\* the command in progress
initVars == <<cmd, cpc, cmd_result, confirm>>
\* the history of the key file
histVars == <<keyfile_before, created>>

\* the locals of run_issue and run_renew
renewVars == <<force, days, renewed, skipped, cert_cache, fetched>>
runVars == <<gateway_filter, domain_filter, dry_run, targets, idx, succeeded,
             failed, total, issued, echoed, renewVars>>

\* the locals of the loop of _collect_status
statusVars == <<cert, days_remaining, status>>
\* the variables of the commands that do not touch the client, the key file
\* or the configuration
\* the control plane and the gateway client
gwVars == <<arm, gw_name, gop, gpc, gateway, gargs, gtrace, gresult, arm_before>>
\* the locals of run_cleanup and the history of its last_pass
cleanupVars == <<cleanup_all, gw_idx, rules, rule_idx, total_found,
                 total_removed, ctrace, pass_start, last_pass>>
\* the challenge responder
responderVars == <<app_setting, served>>
\* the issuance pipeline of one target
pipelineVars == <<step, key_auth, steps>>
\* a second writer to a gateway
writerVars == <<other_write>>
otherVars == <<statusVars, gwVars, cleanupVars, responderVars, pipelineVars,
               writerVars>>

vars == <<acmeVars, initVars, histVars, config, runVars, otherVars>>

\* the AcmeClient object
clientVars == <<account_key, acme_client, net_account>>
\* the locals of the operations
localVars == <<genkey, account_url, attempt, last_exc, challb, order, domain,
               timeout_seconds, interval_seconds, deadline>>

\* ------------------------------------------------------------ trace events

CallEvent(fn, res, val, dur) ==
    [kind |-> "call", fn |-> fn, res |-> res, val |-> val, d |-> dur, at |-> now]

SleepEvent(delay) ==
    [kind |-> "sleep", fn |-> "time.sleep", res |-> "ok", val |-> "none",
     d |-> delay, at |-> now]

\* the positions of the calls of `fn` in a trace, and of the sleeps
CallsOf(t, fn) == {i \in 1..Len(t) : t[i].kind = "call" /\ t[i].fn = fn}
Calls(t) == {i \in 1..Len(t) : t[i].kind = "call"}
Sleeps(t) == {i \in 1..Len(t) : t[i].kind = "sleep"}

\* --------------------------------------------------------------- results

NoResult == [kind |-> "none", val |-> "none", n |-> 0, cause |-> "none"]
Return(v) == [kind |-> "return", val |-> v, n |-> 0, cause |-> "none"]
\* AcmeError(msg): the message, the number it names (an attempt count, a
\* timeout) and the underlying error it names
AcmeError(msg, n, cause) ==
    [kind |-> "AcmeError", val |-> msg, n |-> n, cause |-> cause]
\* an exception that is not AcmeError leaving the operation
Raw(res, e) == [kind |-> "raw", val |-> res, n |-> 0, cause |-> e]

\* outcomes of a CA call: a value, an acme.errors.Error, another exception
CallOutcomes ==
    [res : {"ok"}, val : RetVals] \cup [res : {"acme_err", "other_err"}, val : ErrIds]

\* mtime counts the writes to the path: 0 is the time the operator left it
NoFile == [exists |-> FALSE, content |-> "none", mode |-> "none", mtime |-> 0]
File(c, m) == [exists |-> TRUE, content |-> c, mode |-> m, mtime |-> 0]
\* Path.write_bytes(c) on f under a umask that gives new files mode um: a new
\* file gets um, an existing file is truncated and keeps its mode
Written(f, c, um) ==
    [exists |-> TRUE, content |-> c,
     mode |-> IF f.exists THEN f.mode ELSE um, mtime |-> f.mtime + 1]

\* mutant of Chmod: the mode is left as write_bytes set it
ChmodSkipped(f, m) == f

\* chmod(m) on f: the mode changes, the content and its time do not
Chmod(f, m) == [f EXCEPT !.mode = m]

\* ------------------------------------------------------------- _with_retry

\* mutant of RetryDelay: the back-off does not grow
RetryDelayFlat(a) == RETRY_BASE_DELAY_S

\* delay = _RETRY_BASE_DELAY_S * (2 ** (attempt - 1))
RetryDelay(a) == RETRY_BASE_DELAY_S * (2 ^ (a - 1))

\* mutant of SleepsBeforeRetry: a sleep follows the last attempt too
SleepsAfterEveryAttempt(a) == a <= MAX_RETRIES

\* if attempt < _MAX_RETRIES: sleep, else only log
SleepsBeforeRetry(a) == a < MAX_RETRIES

\* for attempt in range(1, _MAX_RETRIES + 1)
HasNextAttempt(a) == a + 1 <= MAX_RETRIES

\* the operations that go through _with_retry, and the CA call each wraps
RetryOps == {"with_retry", "new_order", "answer_challenge"}
RetryFn(o) ==
    CASE o = "new_order" -> "new_order"
      [] o = "answer_challenge" -> "answer_challenge"
      [] OTHER -> "fn"

\* raise AcmeError(f"ACME operation failed after {_MAX_RETRIES} attempts: {last_exc}")
RetryExhausted(exc) == AcmeError("failed after attempts", MAX_RETRIES, exc)

\* mutant of WrapOther: the exception passes through new_order and
\* answer_challenge as it passes through _with_retry
WrapOtherNever(o, e) == Raw("other_err", e)

\* what the caller of _with_retry makes of an exception that is not an
\* acme.errors.Error: _with_retry lets it pass, new_order and
\* answer_challenge wrap it
WrapOther(o, e) ==
    CASE o = "new_order" -> AcmeError("Failed to create ACME order", 0, e)
      [] o = "answer_challenge" -> AcmeError("Failed to answer ACME challenge", 0, e)
      [] OTHER -> Raw("other_err", e)

\* what the caller returns when _with_retry returned v
RetryReturn(o, v) == IF o = "answer_challenge" THEN Return("None") ELSE Return(v)

\* the end of one pass of the for loop: the next attempt, or the raise
\* after the loop
LoopAdvance(a, exc) ==
    IF HasNextAttempt(a)
    THEN /\ attempt' = a + 1
         /\ pc' = "retry_call"
         /\ result' = result
    ELSE /\ attempt' = a
         /\ pc' = "done"
         /\ result' = RetryExhausted(exc)

\* return fn(*args, **kwargs), and the except clause
RetryCall ==
    /\ pc = "retry_call"
    /\ \E o \in CallOutcomes :
        /\ trace' = Append(trace, CallEvent(RetryFn(op), o.res, o.val, 0))
        /\ CASE o.res = "ok" ->
                  /\ pc' = "done"
                  /\ result' = RetryReturn(op, o.val)
                  /\ UNCHANGED <<attempt, last_exc>>
             [] o.res = "other_err" ->
                  /\ pc' = "done"
                  /\ result' = WrapOther(op, o.val)
                  /\ UNCHANGED <<attempt, last_exc>>
             [] OTHER ->
                  /\ last_exc' = o.val
                  /\ IF SleepsBeforeRetry(attempt)
                     THEN /\ pc' = "retry_sleep"
                          /\ UNCHANGED <<attempt, result>>
                     ELSE LoopAdvance(attempt, o.val)
    /\ UNCHANGED <<op, clientVars, keyfile, genkey, account_url, challb, order,
                   domain, timeout_seconds, interval_seconds, deadline, now>>

\* time.sleep(delay), then the next pass of the loop
RetrySleep ==
    /\ pc = "retry_sleep"
    /\ trace' = Append(trace, SleepEvent(RetryDelay(attempt)))
    /\ now' = now + RetryDelay(attempt)
    /\ LoopAdvance(attempt, last_exc)
    /\ UNCHANGED <<op, clientVars, keyfile, genkey, account_url, last_exc, challb,
                   order, domain, timeout_seconds, interval_seconds, deadline>>

\* _with_retry(fn) called on its own
WithRetryStart ==
    /\ pc = "idle"
    /\ op' = "with_retry"
    /\ pc' = "retry_call"
    /\ attempt' = 1
    /\ last_exc' = "none"
    /\ UNCHANGED <<clientVars, keyfile, genkey, account_url, challb, order, domain,
                   timeout_seconds, interval_seconds, deadline, now, trace, result>>

\* ------------------------------------------------------------- AcmeClient

\* mutant of NotInitialised: a client without a CA handle is not refused
NotInitialisedIgnored == Return("None")

\* _get_client
NotInitialised == AcmeError("not initialised", 0, "none")
\* _get_account_key
NoAccountKey == AcmeError("no account key", 0, "none")

\* mutant of NewOrderStart: new_order asks for a registered account, not
\* only for the CA handle
NewOrderStartNeedsAccount ==
    /\ pc = "idle"
    /\ op' = "new_order"
    /\ IF acme_client = "none" \/ net_account = "none"
       THEN /\ pc' = "done"
            /\ result' = NotInitialised
            /\ UNCHANGED <<attempt, last_exc>>
       ELSE /\ pc' = "retry_call"
            /\ attempt' = 1
            /\ last_exc' = "none"
            /\ UNCHANGED result
    /\ UNCHANGED <<clientVars, keyfile, genkey, account_url, challb, order, domain,
                   timeout_seconds, interval_seconds, deadline, now, trace>>

\* new_order: _get_client, _build_temp_csr, then _with_retry(acme_cl.new_order)
NewOrderStart ==
    /\ pc = "idle"
    /\ op' = "new_order"
    /\ IF acme_client = "none"
       THEN /\ pc' = "done"
            /\ result' = NotInitialised
            /\ UNCHANGED <<attempt, last_exc>>
       ELSE /\ pc' = "retry_call"
            /\ attempt' = 1
            /\ last_exc' = "none"
            /\ UNCHANGED result
    /\ UNCHANGED <<clientVars, keyfile, genkey, account_url, challb, order, domain,
                   timeout_seconds, interval_seconds, deadline, now, trace>>

ChallTypes == {"http-01", "dns-01"}

\* mutant of IsHTTP01: the type of the challenge is not looked at
IsAnyChallenge(t) == TRUE

\* isinstance(challb.chall, challenges.HTTP01)
IsHTTP01(t) == t = "http-01"

\* answer_challenge: _get_client, _get_account_key, the type check, then
\* _with_retry(acme_cl.answer_challenge)
AnswerChallengeStart ==
    /\ pc = "idle"
    /\ op' = "answer_challenge"
    /\ \E t \in ChallTypes :
        /\ challb' = t
        /\ IF acme_client = "none"
           THEN /\ pc' = "done"
                /\ result' = NotInitialised
                /\ UNCHANGED <<attempt, last_exc>>
           ELSE IF account_key = "none"
           THEN /\ pc' = "done"
                /\ result' = NoAccountKey
                /\ UNCHANGED <<attempt, last_exc>>
           ELSE IF ~IsHTTP01(t)
           THEN /\ pc' = "done"
                /\ result' = AcmeError("Expected HTTP01 challenge", 0, "none")
                /\ UNCHANGED <<attempt, last_exc>>
           ELSE /\ pc' = "retry_call"
                /\ attempt' = 1
                /\ last_exc' = "none"
                /\ UNCHANGED result
    /\ UNCHANGED <<clientVars, keyfile, genkey, account_url, order, domain,
                   timeout_seconds, interval_seconds, deadline, now, trace>>

\* ------------------------------------------------------- register_account

\* the mode a file gets from write_bytes: 0o666 masked by the umask
UmaskModes == {"0600", "0644"}

\* serialization.load_pem_private_key and the isinstance check: an RSA key
\* is loaded, a key of another type is refused, anything else does not parse
IsRSAKey(c) == c \in Keys

\* register_account, first statement: _load_or_generate_account_key up to
\* and including write_bytes.  The key becomes self._account_key only when
\* the helper returns.
RegisterStart ==
    /\ pc = "idle"
    /\ op' = "register_account"
    /\ IF keyfile.exists
       THEN /\ UNCHANGED <<keyfile, genkey>>
            /\ IF IsRSAKey(keyfile.content)
               THEN /\ account_key' = keyfile.content
                    /\ pc' = "reg_directory"
                    /\ UNCHANGED result
               ELSE /\ UNCHANGED account_key
                    /\ pc' = "done"
                    /\ result' = IF keyfile.content = "ec"
                                 THEN AcmeError("not an RSA private key", 0, "none")
                                 ELSE Raw("ValueError", "none")
       ELSE /\ \E k \in Keys, m \in UmaskModes :
                 /\ keyfile' = Written(keyfile, k, m)
                 /\ genkey' = k
            /\ pc' = "reg_chmod"
            /\ UNCHANGED <<account_key, result>>
    /\ UNCHANGED <<acme_client, net_account, account_url, attempt, last_exc,
                   challb, order, domain, timeout_seconds, interval_seconds,
                   deadline, now, trace>>

\* account_key_path.chmod(0o600); return JWKRSA(key=private_key)
RegisterChmod ==
    /\ pc = "reg_chmod"
    /\ keyfile' = Chmod(keyfile, "0600")
    /\ account_key' = genkey
    /\ pc' = "reg_directory"
    /\ UNCHANGED <<op, acme_client, net_account, genkey, account_url, attempt,
                   last_exc, challb, order, domain, timeout_seconds,
                   interval_seconds, deadline, now, trace, result>>

\* outcomes of fetching the directory: the directory, or an exception
DirectoryOutcomes ==
    [res : {"ok"}, val : {"directory"}] \cup [res : {"acme_err", "other_err"}, val : ErrIds]

\* client.ClientV2.get_directory(...); self._acme_client = client.ClientV2(...)
\* Both stand outside the try statement.
RegisterGetDirectory ==
    /\ pc = "reg_directory"
    /\ \E o \in DirectoryOutcomes :
        /\ trace' = Append(trace, CallEvent("get_directory", o.res, o.val, 0))
        /\ IF o.res = "ok"
           THEN /\ acme_client' = "client"
                /\ net_account' = "none"
                /\ pc' = "reg_new_account"
                /\ UNCHANGED result
           ELSE /\ UNCHANGED <<acme_client, net_account>>
                /\ pc' = "done"
                /\ result' = Raw(o.res, o.val)
    /\ UNCHANGED <<op, account_key, keyfile, genkey, account_url, attempt, last_exc,
                   challb, order, domain, timeout_seconds, interval_seconds,
                   deadline, now>>

\* outcomes of new_account: the registration, a conflict naming the
\* existing account, an acme.errors.Error, another exception
NewAccountOutcomes ==
    [res : {"ok", "conflict"}, val : Urls] \cup [res : {"acme_err", "other_err"}, val : ErrIds]

\* mutant of IsConflict: a conflict is handled like any other error
IsNeverConflict(res) == FALSE

\* except errors.ConflictError
IsConflict(res) == res = "conflict"

\* the except clauses of register_account that end the call: both
\* errors.Error and Exception raise AcmeError at once
RegisterFailed(e) == AcmeError("Failed to register ACME account", 0, e)

\* regr = self._acme_client.new_account(new_reg) and its except clauses
RegisterNewAccount ==
    /\ pc = "reg_new_account"
    /\ \E o \in NewAccountOutcomes :
        /\ trace' = Append(trace, CallEvent("new_account", o.res, o.val, 0))
        /\ CASE o.res = "ok" ->
                  \* the library keeps the registration in net.account
                  /\ net_account' = o.val
                  /\ pc' = "done"
                  /\ result' = Return(o.val)
                  /\ UNCHANGED account_url
             [] IsConflict(o.res) ->
                  /\ account_url' = o.val
                  /\ pc' = "reg_query"
                  /\ UNCHANGED <<net_account, result>>
             [] OTHER ->
                  /\ pc' = "done"
                  /\ result' = RegisterFailed(o.val)
                  /\ UNCHANGED <<net_account, account_url>>
    /\ UNCHANGED <<op, account_key, acme_client, keyfile, genkey, attempt, last_exc,
                   challb, order, domain, timeout_seconds, interval_seconds,
                   deadline, now>>

\* outcomes of query_registration
QueryOutcomes ==
    [res : {"ok"}, val : {"existing"}] \cup [res : {"acme_err", "other_err"}, val : ErrIds]

\* inside "except errors.ConflictError": query_registration,
\* net.account = existing, return account_url.  An exception raised here
\* is raised inside an except clause: no other clause of the try catches it.
RegisterQuery ==
    /\ pc = "reg_query"
    /\ \E o \in QueryOutcomes :
        /\ trace' = Append(trace, CallEvent("query_registration", o.res, o.val, 0))
        /\ pc' = "done"
        /\ IF o.res = "ok"
           THEN /\ net_account' = account_url
                /\ result' = Return(account_url)
           ELSE /\ UNCHANGED net_account
                /\ result' = Raw(o.res, o.val)
    /\ UNCHANGED <<op, account_key, acme_client, keyfile, genkey, account_url,
                   attempt, last_exc, challb, order, domain, timeout_seconds,
                   interval_seconds, deadline, now>>

\* ------------------------------------------------------- poll_until_valid

\* outcomes of one poll_authorizations pass: all authorizations valid,
\* errors.TimeoutError (not yet valid), errors.ValidationError, another
\* acme.errors.Error, an exception of another kind
PollOutcomes ==
    [res : {"valid"}, val : RetVals] \cup [res : {"pending"}, val : {"none"}]
        \cup [res : {"invalid", "acme_err", "other_err"}, val : ErrIds]

\* mutant of PollTimedOut: the call falls off the loop and returns
PollFallsThrough(t) == Return("None")

\* raise AcmeError(f"ACME order did not reach 'valid' status within {timeout_seconds}s")
PollTimedOut(t) == AcmeError("did not reach valid status within", t, "none")

\* acme_cl = self._get_client(); deadline = now + timedelta(seconds=timeout_seconds)
PollStart ==
    /\ pc = "idle"
    /\ op' = "poll_until_valid"
    /\ \E t \in 0..MaxTimeout, i \in 0..MaxInterval :
        /\ timeout_seconds' = t
        /\ interval_seconds' = i
        /\ IF acme_client = "none"
           THEN /\ pc' = "done"
                /\ result' = NotInitialised
                /\ UNCHANGED deadline
           ELSE /\ pc' = "poll_check"
                /\ deadline' = now + t
                /\ UNCHANGED result
    /\ UNCHANGED <<clientVars, keyfile, genkey, account_url, attempt, last_exc,
                   challb, order, domain, now, trace>>

\* mutant of DeadlineOpen: a poll is still started at the deadline itself
DeadlineOpenInclusive(t, dl) == t <= dl

\* while datetime.now(tz=UTC) < deadline
DeadlineOpen(t, dl) == t < dl

\* the loop condition, and the raise after the loop
PollCheck ==
    /\ pc = "poll_check"
    /\ IF DeadlineOpen(now, deadline)
       THEN /\ pc' = "poll_call"
            /\ UNCHANGED result
       ELSE /\ pc' = "done"
            /\ result' = PollTimedOut(timeout_seconds)
    /\ UNCHANGED <<op, clientVars, keyfile, localVars, now, trace>>

\* the polls of the call so far that took no time
InstantPolls(t) == {i \in CallsOf(t, "poll_authorizations") : t[i].d = 0}

\* mutant of SleepsAfterPoll: a validation failure is polled again
SleepsAfterAnyFailure(res) == res \in {"pending", "invalid"}

\* the except clause of the loop body that takes a poll result to the
\* sleep: only errors.TimeoutError
SleepsAfterPoll(res) == res = "pending"

\* what the loop body raises or returns for a poll result that ends the call
PollEnds(res, e) ==
    CASE res = "valid" -> Return("None")
      [] res = "invalid" -> AcmeError("ACME validation failed", 0, e)
      [] res = "acme_err" -> AcmeError("ACME polling error", 0, e)
      [] OTHER -> Raw(res, e)

\* updated = acme_cl.poll_authorizations(order, deadline=short_deadline)
\* and the except clauses
PollCall ==
    /\ pc = "poll_call"
    /\ \E o \in PollOutcomes, dur \in 0..MaxPollDur :
        /\ (dur = 0 /\ interval_seconds = 0)
              => Cardinality(InstantPolls(trace)) < MaxInstantPolls
        /\ trace' = Append(trace, CallEvent("poll_authorizations", o.res, o.val, dur))
        /\ now' = now + dur
        /\ IF SleepsAfterPoll(o.res)
           THEN /\ pc' = "poll_sleep"
                /\ UNCHANGED result
           ELSE /\ pc' = "done"
                /\ result' = PollEnds(o.res, o.val)
    /\ UNCHANGED <<op, clientVars, keyfile, localVars>>

\* time.sleep(interval_seconds), then back to the loop condition
PollSleep ==
    /\ pc = "poll_sleep"
    /\ trace' = Append(trace, SleepEvent(interval_seconds))
    /\ now' = now + interval_seconds
    /\ pc' = "poll_check"
    /\ UNCHANGED <<op, clientVars, keyfile, localVars, result>>

\* ---------------------------------------------------------- finalize_order

\* outcomes of the CA's finalize_order: the finalized order,
\* errors.TimeoutError, another acme.errors.Error, another exception
FinalizeOutcomes ==
    [res : {"ok"}, val : RetVals] \cup [res : {"timeout"}, val : {"none"}]
        \cup [res : {"acme_err", "other_err"}, val : ErrIds]

\* the three except clauses of finalize_order
FinalizeRaises(res, e) ==
    IF res = "timeout"
    THEN AcmeError("ACME order finalization timed out", 0, "none")
    ELSE AcmeError("Failed to finalize ACME order", 0, e)

\* acme_cl = self._get_client(); updated_order = order.update(csr_pem=csr_pem)
FinalizeStart ==
    /\ pc = "idle"
    /\ op' = "finalize_order"
    /\ IF acme_client = "none"
       THEN /\ pc' = "done"
            /\ result' = NotInitialised
       ELSE /\ pc' = "fin_call"
            /\ UNCHANGED result
    /\ UNCHANGED <<clientVars, keyfile, localVars, now, trace>>

\* mutant of FinalizeAfterFailure: the CSR is submitted again
FinalizeRetried(res, e) ==
    /\ pc' = "fin_call"
    /\ result' = result

\* what follows a failed finalize call: the raise, never another attempt
FinalizeAfterFailure(res, e) ==
    /\ pc' = "done"
    /\ result' = FinalizeRaises(res, e)

\* finalized = acme_cl.finalize_order(updated_order, deadline_dt)
FinalizeCall ==
    /\ pc = "fin_call"
    /\ \E o \in FinalizeOutcomes :
        /\ trace' = Append(trace, CallEvent("finalize_order", o.res, o.val, 0))
        /\ IF o.res = "ok"
           THEN /\ pc' = "done"
                /\ result' = Return(o.val)
           ELSE FinalizeAfterFailure(o.res, o.val)
    /\ UNCHANGED <<op, clientVars, keyfile, localVars, now>>

\* ----------------------------------------------------- get_http01_challenge

\* the domain names of orders and queries
Domains == {"a.example", "b.example"}
\* challb.chall.encode("token"): the token in its URL-safe text form
Tokens == {"tokA", "tokB"}
\* a challenge body: the type of challb.chall and its token
Challenges == [type : ChallTypes, token : Tokens]

\* the text form of the SHA-256 thumbprint of an account key
Thumbprint(k) == IF k = "k1" THEN "thumb1" ELSE "thumb2"

\* challb.chall.key_authorization(account_key): token + "." + thumbprint
KeyAuthorization(token, k) == token \o "." \o Thumbprint(k)

\* the inner for loop: the first HTTP-01 challenge from position j on,
\* 0 when the authorization has none
RECURSIVE ScanChallenges(_, _)
ScanChallenges(challs, j) ==
    IF j > Len(challs) THEN 0
    ELSE IF IsHTTP01(challs[j].type) THEN j
    ELSE ScanChallenges(challs, j + 1)

\* mutant of AuthzMatches: the identifier is not compared
AuthzMatchesAny(authzr, d) == TRUE

\* authzr.body.identifier.value == domain
AuthzMatches(authzr, d) == authzr.identifier = d

\* the outer for loop from authorization i on: the (token,
\* key_authorization) returned, or the AcmeError raised after the loop
RECURSIVE ScanAuthorizations(_, _, _, _)
ScanAuthorizations(authzs, d, k, i) ==
    IF i > Len(authzs)
    THEN AcmeError("No HTTP-01 challenge found for domain", 0, d)
    ELSE IF AuthzMatches(authzs[i], d) /\ ScanChallenges(authzs[i].challenges, 1) # 0
    THEN LET c == authzs[i].challenges[ScanChallenges(authzs[i].challenges, 1)]
         IN  Return(<<c.token, KeyAuthorization(c.token, k)>>)
    ELSE ScanAuthorizations(authzs, d, k, i + 1)

\* the number of challenges an order holds
RECURSIVE ChallengeCount(_)
ChallengeCount(authzs) ==
    IF authzs = <<>> THEN 0
    ELSE Len(Head(authzs).challenges) + ChallengeCount(Tail(authzs))

\* the CA adds an authorization for a domain to the order being made
OrderAddAuthorization ==
    /\ pc = "idle"
    /\ Len(order) < MaxAuthz
    /\ \E d \in Domains :
        order' = Append(order, [identifier |-> d, challenges |-> <<>>])
    /\ UNCHANGED <<op, pc, clientVars, keyfile, genkey, account_url, attempt,
                   last_exc, challb, domain, timeout_seconds, interval_seconds,
                   deadline, now, trace, result>>

\* the CA adds a challenge to the last authorization of the order
OrderAddChallenge ==
    /\ pc = "idle"
    /\ order # <<>>
    /\ ChallengeCount(order) < MaxChall
    /\ \E c \in Challenges :
        order' = [order EXCEPT ![Len(order)].challenges = Append(@, c)]
    /\ UNCHANGED <<op, pc, clientVars, keyfile, genkey, account_url, attempt,
                   last_exc, challb, domain, timeout_seconds, interval_seconds,
                   deadline, now, trace, result>>

\* get_http01_challenge(order, domain): _get_account_key, then the scan
GetHttp01Challenge ==
    /\ pc = "idle"
    /\ op' = "get_http01_challenge"
    /\ pc' = "done"
    /\ \E d \in Domains :
        /\ domain' = d
        /\ result' = IF account_key = "none"
                     THEN NoAccountKey
                     ELSE ScanAuthorizations(order, d, account_key, 1)
    /\ UNCHANGED <<clientVars, keyfile, genkey, account_url, attempt, last_exc,
                   challb, order, timeout_seconds, interval_seconds, deadline,
                   now, trace>>

\* ----------------------------------------------------------------- run_init

\* what a command ends with: it returns (exit status 0) or raises
CmdNone == [kind |-> "none", val |-> "none", cause |-> "none"]
CmdReturn(v) == [kind |-> "return", val |-> v, cause |-> "none"]
InitError(msg, cause) == [kind |-> "InitError", val |-> msg, cause |-> cause]
\* an exception run_init does not catch
CmdRaw(res, e) == [kind |-> "raw", val |-> res, cause |-> e]

\* mutant of Declined: the answer to the prompt is ignored
DeclinedNever(exists, answer) == FALSE

\* the overwrite guard: key_path.exists() and not click.confirm(...)
Declined(exists, answer) == exists /\ ~answer

\* rsa.generate_private_key: a key generated now differs from any key
\* generated before
FreshKeys(f) == Keys \ {f.content}

\* run_init up to and including the overwrite guard.  Template mode prints
\* the template and returns; a declined prompt returns with "Aborted".
InitStart ==
    /\ cmd = "idle"
    /\ pc = "idle"
    /\ keyfile.mtime < MaxWrites
    /\ cmd' = "init"
    /\ keyfile_before' = keyfile
    /\ \E config_template \in BOOLEAN, answer \in BOOLEAN :
        IF config_template
        THEN /\ confirm' = "none"
             /\ cpc' = "done"
             /\ cmd_result' = CmdReturn("template")
        ELSE /\ confirm' = CASE ~keyfile.exists -> "none"
                               [] answer -> "yes"
                               [] OTHER -> "no"
             /\ IF Declined(keyfile.exists, answer)
                THEN /\ cpc' = "done"
                     /\ cmd_result' = CmdReturn("aborted")
                ELSE /\ cpc' = "init_write"
                     /\ UNCHANGED cmd_result
    /\ UNCHANGED <<acmeVars, created, config, runVars, otherVars>>

\* _generate_and_write_key up to and including key_path.write_bytes, and
\* "except OSError" of run_init
InitWrite ==
    /\ cpc = "init_write"
    /\ \/ \E k \in FreshKeys(keyfile), m \in UmaskModes :
            /\ keyfile' = Written(keyfile, k, m)
            /\ created' = IF keyfile.exists THEN created ELSE k
            /\ cpc' = "init_chmod"
            /\ UNCHANGED cmd_result
       \/ \E e \in ErrIds :
            /\ cpc' = "done"
            /\ cmd_result' = InitError("Failed to write account key", e)
            /\ UNCHANGED <<keyfile, created>>
    /\ UNCHANGED <<op, pc, account_key, acme_client, net_account, genkey,
                   account_url, attempt, last_exc, challb, order, domain,
                   timeout_seconds, interval_seconds, deadline, now, trace,
                   result, cmd, confirm, keyfile_before, config, runVars, otherVars>>

\* os.chmod(key_path, 0o600), and "except OSError" of run_init
InitChmod ==
    /\ cpc = "init_chmod"
    /\ \/ /\ keyfile' = Chmod(keyfile, "0600")
          /\ cpc' = "init_config"
          /\ UNCHANGED cmd_result
       \/ \E e \in ErrIds :
            /\ cpc' = "done"
            /\ cmd_result' = InitError("Failed to write account key", e)
            /\ UNCHANGED keyfile
    /\ UNCHANGED <<op, pc, account_key, acme_client, net_account, genkey,
                   account_url, attempt, last_exc, challb, order, domain,
                   timeout_seconds, interval_seconds, deadline, now, trace,
                   result, cmd, confirm, histVars, config, runVars, otherVars>>

\* mutant of InitConfig: a failure to load the configuration puts the key
\* file back as it was
InitConfigRollsBack ==
    /\ cpc = "init_config"
    /\ \/ /\ cpc' = "init_client"
          /\ UNCHANGED <<cmd_result, keyfile>>
       \/ \E e \in ErrIds :
            /\ cpc' = "done"
            /\ cmd_result' = InitError("Failed to load configuration", e)
            /\ keyfile' = keyfile_before
    /\ UNCHANGED <<op, pc, account_key, acme_client, net_account, genkey,
                   account_url, attempt, last_exc, challb, order, domain,
                   timeout_seconds, interval_seconds, deadline, now, trace,
                   result, cmd, confirm, histVars, config, runVars, otherVars>>

\* parse_config(Path(config_path)) and config.acme.email, and "except
\* Exception" around them
InitConfig ==
    /\ cpc = "init_config"
    /\ \/ /\ cpc' = "init_client"
          /\ UNCHANGED cmd_result
       \/ \E e \in ErrIds :
            /\ cpc' = "done"
            /\ cmd_result' = InitError("Failed to load configuration", e)
    /\ UNCHANGED <<acmeVars, cmd, confirm, histVars, config, runVars, otherVars>>

\* client = AcmeClient(directory_url=...): a client of its own for this run
InitNewClient ==
    /\ cpc = "init_client"
    /\ account_key' = "none"
    /\ acme_client' = "none"
    /\ net_account' = "none"
    /\ cpc' = "init_register"
    /\ UNCHANGED <<op, pc, keyfile, genkey, account_url, attempt, last_exc,
                   challb, order, domain, timeout_seconds, interval_seconds,
                   deadline, now, trace, result, cmd, cmd_result, confirm,
                   histVars, config, runVars, otherVars>>

\* client.register_account(email, key_path) is entered
InitRegisterCall ==
    /\ cpc = "init_register"
    /\ RegisterStart
    /\ cpc' = "init_registering"
    /\ UNCHANGED <<cmd, cmd_result, confirm, histVars, config, runVars, otherVars>>

\* a step of register_account inside run_init (the key file exists, so
\* the key was loaded from it)
InitRegisterStep ==
    /\ cpc = "init_registering"
    /\ \/ RegisterGetDirectory
       \/ RegisterNewAccount
       \/ RegisterQuery
    /\ UNCHANGED <<initVars, histVars, config, runVars, otherVars>>

\* register_account is over: the URL is echoed, "except AcmeError" raises
\* InitError, any other exception leaves run_init as it is
InitRegisterReturn ==
    /\ cpc = "init_registering"
    /\ pc = "done"
    /\ cpc' = "done"
    /\ cmd_result' = CASE result.kind = "return" -> CmdReturn(result.val)
                       [] result.kind = "AcmeError" ->
                            InitError("ACME registration failed", result.val)
                       [] OTHER -> CmdRaw(result.val, result.cause)
    /\ UNCHANGED <<acmeVars, cmd, confirm, histVars, config, runVars, otherVars>>

\* the locals of run_issue and run_renew are gone
ResetRun ==
    /\ gateway_filter' = "none"
    /\ domain_filter' = "none"
    /\ dry_run' = FALSE
    /\ targets' = <<>>
    /\ idx' = 0
    /\ succeeded' = 0
    /\ failed' = 0
    /\ total' = 0
    /\ issued' = <<>>
    /\ echoed' = <<>>
    /\ force' = FALSE
    /\ days' = 0
    /\ renewed' = 0
    /\ skipped' = 0
    /\ cert_cache' = <<>>
    /\ fetched' = <<>>

\* the exception class the handler of each subcommand catches
ErrorOf(name) ==
    CASE name = "init" -> "InitError"
      [] name = "issue" -> "IssueError"
      [] name = "renew" -> "RenewError"
      [] name = "status" -> "StatusError"
      [] name = "cleanup" -> "CleanupError"

\* how the subcommand ends on what its run_ function ended with: a return
\* gives exit status 0; the command's own error is echoed as one
\* "Error: ..." line on stderr and sys.exit(1) follows; any other exception
\* passes the handler and leaves the program as a traceback
CliExit(name, res) ==
    CASE res.kind = "return" ->
            [code |-> 0, stderr |-> "none", unhandled |-> FALSE]
      [] res.kind = ErrorOf(name) ->
            [code |-> 1, stderr |-> "Error: " \o res.val, unhandled |-> FALSE]
      [] OTHER ->
            [code |-> 1, stderr |-> "Traceback", unhandled |-> TRUE]

\* the process of the command exits
CmdFinish ==
    /\ cpc = "done"
    /\ cmd' = "idle"
    /\ cpc' = "idle"
    /\ cmd_result' = CmdNone
    /\ confirm' = "none"
    /\ op' = "idle"
    /\ pc' = "idle"
    /\ genkey' = "none"
    /\ account_url' = "none"
    /\ attempt' = 0
    /\ last_exc' = "none"
    /\ challb' = "none"
    /\ order' = <<>>
    /\ domain' = "none"
    /\ timeout_seconds' = 0
    /\ interval_seconds' = 0
    /\ deadline' = 0
    /\ now' = 0
    /\ trace' = <<>>
    /\ result' = NoResult
    /\ ResetRun
    /\ UNCHANGED <<clientVars, keyfile, histVars, config, otherVars>>

\* an operation called on the client directly, outside any command: the
\* history of the key file is kept as it starts
ClientStart(A) ==
    /\ cmd = "idle"
    /\ A
    /\ keyfile_before' = keyfile
    /\ created' = IF keyfile.exists \/ ~keyfile'.exists THEN created
                  ELSE keyfile'.content
    /\ UNCHANGED <<initVars, config, runVars, otherVars>>

\* a further step of such an operation
ClientStep(A) ==
    /\ cmd = "idle"
    /\ A
    /\ UNCHANGED <<initVars, histVars, config, runVars, otherVars>>

\* ------------------------------------------------------ the configuration

\* gateway names an operator may write into the configuration
GwNames == {"agw-alpha", "agw-beta"}

RECURSIVE DomainCount(_)
\* the number of domain entries of the gateways gws
DomainCount(gws) ==
    IF gws = <<>> THEN 0 ELSE Len(Head(gws).domains) + DomainCount(Tail(gws))

\* AppConfig and GatewayConfig: gateways and domains have min_length=1
\* (names and domains may repeat: nothing validates uniqueness)
ValidConfig(c) ==
    /\ c # <<>>
    /\ \A i \in 1..Len(c) : c[i].domains # <<>>

\* the operator adds a gateway to the configuration file
ConfigAddGateway ==
    /\ cmd = "idle"
    /\ pc = "idle"
    /\ Len(config) < MaxGateways
    /\ DomainCount(config) < MaxDomains
    /\ config # <<>> => config[Len(config)].domains # <<>>
    /\ \E n \in GwNames :
        config' = Append(config, [name |-> n, domains |-> <<>>])
    /\ UNCHANGED <<acmeVars, initVars, histVars, runVars, otherVars>>

\* the operator adds a domain to the last gateway of the configuration file
ConfigAddDomain ==
    /\ cmd = "idle"
    /\ pc = "idle"
    /\ config # <<>>
    /\ DomainCount(config) < MaxDomains
    /\ \E d \in Domains :
        config' = [config EXCEPT ![Len(config)].domains = Append(@, d)]
    /\ UNCHANGED <<acmeVars, initVars, histVars, runVars, otherVars>>

\* ---------------------------------------------------------------- run_issue

IssueError(msg) == [kind |-> "IssueError", val |-> msg, cause |-> "none"]

DomainTarget(g, d) == [gateway_name |-> g, domain |-> d]

\* a line echoed for a target
Echo(tag, t) == [tag |-> tag, gateway_name |-> t.gateway_name, domain |-> t.domain]

\* mutant of GatewaySelected: the gateway filter is ignored
GatewaySelectedAlways(name, gf) == TRUE

\* _resolve_targets: "gateway_filter is not None and gateway.name !=
\* gateway_filter" skips the gateway
GatewaySelected(name, gf) == gf = "none" \/ name = gf

\* ... and the same for the domain filter
DomainSelected(d, df) == df = "none" \/ d = df

RECURSIVE TargetsOfGateway(_, _, _)
\* the inner loop of _resolve_targets, from domain j of gateway gw on
TargetsOfGateway(gw, df, j) ==
    IF j > Len(gw.domains) THEN <<>>
    ELSE (IF DomainSelected(gw.domains[j], df)
          THEN <<DomainTarget(gw.name, gw.domains[j])>>
          ELSE <<>>) \o TargetsOfGateway(gw, df, j + 1)

RECURSIVE ResolveTargets(_, _, _, _)
\* the outer loop of _resolve_targets, from gateway i of the configuration on
ResolveTargets(c, gf, df, i) ==
    IF i > Len(c) THEN <<>>
    ELSE (IF GatewaySelected(c[i].name, gf)
          THEN TargetsOfGateway(c[i], df, 1)
          ELSE <<>>) \o ResolveTargets(c, gf, df, i + 1)

\* what the try statement around _issue_single_domain sees: the call
\* returns or raises.  (The body of _issue_single_domain in this source
\* tree is a placeholder that always raises NotImplementedError; run_issue
\* and run_renew are written for a pipeline that can also return, and
\* that is how the tests run them.)
PipelineOutcomes == {"ok", "raises"}

\* mutant of SkipsIssuance: dry_run is ignored
SkipsIssuanceNever(dry) == FALSE

\* "if dry_run:" in the loop of run_issue
SkipsIssuance(dry) == dry

\* mutant of IssueFails: the command never raises for failed targets
IssueFailsNever(f) == FALSE

\* "if failed > 0: raise IssueError"
IssueFails(f) == f > 0

\* run_issue up to the loop: parse_config, _resolve_targets, "if not targets"
IssueStart ==
    /\ cmd = "idle"
    /\ pc = "idle"
    /\ cmd' = "issue"
    /\ \E gf \in {"none"} \cup GwNames, df \in {"none"} \cup Domains,
          dr \in BOOLEAN, readable \in BOOLEAN :
        /\ gateway_filter' = gf
        /\ domain_filter' = df
        /\ dry_run' = dr
        /\ IF ~readable \/ ~ValidConfig(config)
           THEN /\ cmd_result' = IssueError("Failed to load configuration")
                /\ cpc' = "done"
                /\ UNCHANGED <<targets, idx>>
           ELSE LET ts == ResolveTargets(config, gf, df, 1) IN
                CASE df # "none" /\ ts = <<>> ->
                       /\ cmd_result' = IssueError("not found in configuration")
                       /\ cpc' = "done"
                       /\ UNCHANGED <<targets, idx>>
                  [] df = "none" /\ ts = <<>> ->
                       /\ cmd_result' = CmdReturn("Nothing to do")
                       /\ cpc' = "done"
                       /\ targets' = ts
                       /\ UNCHANGED idx
                  [] OTHER ->
                       /\ targets' = ts
                       /\ idx' = 1
                       /\ cpc' = "issue_loop"
                       /\ UNCHANGED cmd_result
    /\ UNCHANGED <<acmeVars, confirm, histVars, config, succeeded, failed,
                   total, issued, echoed, renewVars, otherVars>>

\* one pass of "for target in targets" of run_issue
IssueTarget ==
    /\ cpc = "issue_loop"
    /\ idx <= Len(targets)
    /\ idx' = idx + 1
    /\ LET target == targets[idx] IN
        IF SkipsIssuance(dry_run)
        THEN /\ echoed' = Append(echoed, Echo("DRY-RUN", target))
             /\ succeeded' = succeeded + 1
             /\ UNCHANGED <<failed, issued>>
        ELSE /\ issued' = Append(issued, target)
             /\ \E o \in PipelineOutcomes :
                 IF o = "ok"
                 THEN /\ echoed' = Append(echoed, Echo("OK", target))
                      /\ succeeded' = succeeded + 1
                      /\ UNCHANGED failed
                 ELSE /\ echoed' = Append(echoed, Echo("FAILED", target))
                      /\ failed' = failed + 1
                      /\ UNCHANGED succeeded
    /\ UNCHANGED <<acmeVars, initVars, histVars, config, gateway_filter,
                   domain_filter, dry_run, targets, total, renewVars, otherVars>>

\* run_issue after the loop: the summary, and IssueError if a target failed
IssueSummary ==
    /\ cpc = "issue_loop"
    /\ idx > Len(targets)
    /\ total' = succeeded + failed
    /\ cmd_result' = IF IssueFails(failed)
                     THEN IssueError("failed to issue certificates")
                     ELSE CmdReturn("Summary")
    /\ cpc' = "done"
    /\ UNCHANGED <<acmeVars, cmd, confirm, histVars, config, gateway_filter,
                   domain_filter, dry_run, targets, idx, succeeded, failed,
                   issued, echoed, renewVars, otherVars>>

\* ---------------------------------------------------------------- run_renew

RenewError(msg) == [kind |-> "RenewError", val |-> msg, cause |-> "none"]

\* the labels of a domain name, and labels joined by a separator
Labels(d) == IF d = "a.example" THEN <<"a", "example">> ELSE <<"b", "example">>
RECURSIVE Join(_, _)
Join(ls, sep) ==
    IF Len(ls) = 1 THEN ls[1] ELSE ls[1] \o sep \o Join(Tail(ls), sep)

\* _domain_to_cert_name: domain.replace(".", "-") + "-cert"
DomainToCertName(d) == Join(Labels(d), "-") \o "-cert"

\* what a listing says of a certificate name: no entry of that name, an
\* entry with expiry None, an entry with an expiry (a time of the clock)
Absent == [present |-> FALSE, known |-> FALSE, expiry |-> 0]
UnknownExpiry == [present |-> TRUE, known |-> FALSE, expiry |-> 0]
Expires(e) == [present |-> TRUE, known |-> TRUE, expiry |-> e]

\* _days_remaining: (expiry - now).days, the whole days rounded down
DaysRemaining(expiry, t) == (expiry - t) \div TicksPerDay

\* the values of --days
Thresholds == {30, 60}

\* the expiries of listed certificates: the last tick of the day d days
\* ahead, the first tick of the day after it
ListedExpiries(t, d) ==
    {t + d * TicksPerDay + TicksPerDay - 1, t + (d + 1) * TicksPerDay}

\* the certificate names the pending targets ts of gateway g are looked up by
LookedUp(ts, g) ==
    {DomainToCertName(ts[k].domain) : k \in {k \in 1..Len(ts) : ts[k].gateway_name = g}}

\* the listings list_certificates can return (certificate names are unique
\* on a gateway), as far as the run reads them: for each name in names,
\* what the listing holds
Listings(names, t, d) ==
    [names -> {Absent, UnknownExpiry} \cup {Expires(e) : e \in ListedExpiries(t, d)}]

\* mutant of AboveThreshold: a certificate at the threshold is skipped too
AboveThresholdInclusive(f, remaining, d) == ~f /\ remaining >= d

\* "if not force and remaining > days": skip
AboveThreshold(f, remaining, d) == ~f /\ remaining > d

\* mutant of RenewFails: the command never raises for failed targets
RenewFailsNever(f) == FALSE

\* "if failed > 0: raise RenewError"
RenewFails(f) == f > 0

\* cert_cache[g] = listing
CachePut(cache, g, listing) ==
    [h \in DOMAIN cache \cup {g} |-> IF h = g THEN listing ELSE cache[h]]

\* run_renew up to the loop: parse_config, _resolve_targets, "if not targets"
RenewStart ==
    /\ cmd = "idle"
    /\ pc = "idle"
    /\ DomainCount(config) <= MaxRenewDomains
    /\ cmd' = "renew"
    /\ \E gf \in {"none"} \cup GwNames, df \in {"none"} \cup Domains,
          d \in Thresholds, f \in BOOLEAN, readable \in BOOLEAN :
        /\ gateway_filter' = gf
        /\ domain_filter' = df
        /\ days' = d
        /\ force' = f
        /\ IF ~readable \/ ~ValidConfig(config)
           THEN /\ cmd_result' = RenewError("Failed to load configuration")
                /\ cpc' = "done"
                /\ UNCHANGED <<targets, idx>>
           ELSE LET ts == ResolveTargets(config, gf, df, 1) IN
                CASE df # "none" /\ ts = <<>> ->
                       /\ cmd_result' = RenewError("not found in configuration")
                       /\ cpc' = "done"
                       /\ UNCHANGED <<targets, idx>>
                  [] df = "none" /\ ts = <<>> ->
                       /\ cmd_result' = CmdReturn("Nothing to do")
                       /\ cpc' = "done"
                       /\ targets' = ts
                       /\ UNCHANGED idx
                  [] OTHER ->
                       /\ targets' = ts
                       /\ idx' = 1
                       /\ cpc' = "renew_loop"
                       /\ UNCHANGED cmd_result
    /\ UNCHANGED <<acmeVars, confirm, histVars, config, dry_run, succeeded,
                   failed, total, issued, echoed, renewed, skipped, cert_cache,
                   fetched, otherVars>>

\* "if target.gateway_name not in cert_cache": the listing is fetched.  A
\* listing is kept and the pass goes on; AzureGatewayError skips the target;
\* no clause catches any other exception.  (gateway_cfg is never None: the
\* targets come from this configuration.)
RenewFetch ==
    /\ cpc = "renew_loop"
    /\ idx <= Len(targets)
    /\ targets[idx].gateway_name \notin DOMAIN cert_cache
    /\ fetched' = Append(fetched, targets[idx].gateway_name)
    /\ \/ \E listing \in Listings(LookedUp(SubSeq(targets, idx, Len(targets)),
                                              targets[idx].gateway_name), now, days) :
            /\ cert_cache' = CachePut(cert_cache, targets[idx].gateway_name, listing)
            /\ UNCHANGED <<cpc, cmd_result, idx, skipped, echoed>>
       \/ /\ echoed' = Append(echoed, Echo("WARN-fetch", targets[idx]))
          /\ skipped' = skipped + 1
          /\ idx' = idx + 1
          /\ UNCHANGED <<cpc, cmd_result, cert_cache>>
       \/ \E e \in ErrIds :
            /\ cmd_result' = CmdRaw("other_err", e)
            /\ cpc' = "done"
            /\ UNCHANGED <<idx, skipped, echoed, cert_cache>>
    /\ UNCHANGED <<acmeVars, cmd, confirm, histVars, config, gateway_filter,
                   domain_filter, dry_run, targets, succeeded, failed, total,
                   issued, force, days, renewed, otherVars>>

\* the rest of one pass of "for target in targets" of run_renew: the
\* certificate is looked up in the cached listing and the target is
\* skipped or handed to _issue_single_domain
RenewTarget ==
    /\ cpc = "renew_loop"
    /\ idx <= Len(targets)
    /\ targets[idx].gateway_name \in DOMAIN cert_cache
    /\ idx' = idx + 1
    /\ LET target == targets[idx]
           cert_entry == cert_cache[target.gateway_name][DomainToCertName(target.domain)]
       IN  CASE ~cert_entry.present ->
                  /\ echoed' = Append(echoed, Echo("WARN-absent", target))
                  /\ skipped' = skipped + 1
                  /\ UNCHANGED <<issued, renewed, failed>>
             [] cert_entry.present /\ ~cert_entry.known ->
                  /\ echoed' = Append(echoed, Echo("WARN-expiry", target))
                  /\ skipped' = skipped + 1
                  /\ UNCHANGED <<issued, renewed, failed>>
             [] cert_entry.present /\ cert_entry.known
                  /\ AboveThreshold(force, DaysRemaining(cert_entry.expiry, now), days) ->
                  /\ echoed' = Append(echoed, Echo("SKIP", target))
                  /\ skipped' = skipped + 1
                  /\ UNCHANGED <<issued, renewed, failed>>
             [] OTHER ->
                  /\ issued' = Append(issued, target)
                  /\ \E o \in PipelineOutcomes :
                      IF o = "ok"
                      THEN /\ echoed' = Append(echoed, Echo("RENEWED", target))
                           /\ renewed' = renewed + 1
                           /\ UNCHANGED <<skipped, failed>>
                      ELSE /\ echoed' = Append(echoed, Echo("FAILED", target))
                           /\ failed' = failed + 1
                           /\ UNCHANGED <<skipped, renewed>>
    /\ UNCHANGED <<acmeVars, initVars, histVars, config, gateway_filter,
                   domain_filter, dry_run, targets, succeeded, total, force,
                   days, cert_cache, fetched, otherVars>>

\* run_renew after the loop: the summary, and RenewError if a target failed
RenewSummary ==
    /\ cpc = "renew_loop"
    /\ idx > Len(targets)
    /\ total' = renewed + skipped + failed
    /\ cmd_result' = IF RenewFails(failed)
                     THEN RenewError("failed to renew certificates")
                     ELSE CmdReturn("Total")
    /\ cpc' = "done"
    /\ UNCHANGED <<acmeVars, cmd, confirm, histVars, config, gateway_filter,
                   domain_filter, dry_run, targets, idx, succeeded, failed,
                   issued, echoed, renewVars, otherVars>>

\* ----------------------------------------------------------- status_command

\* days_remaining: int | None
NoDays == [known |-> FALSE, days |-> 0]
Days(n) == [known |-> TRUE, days |-> n]

\* mutant of AboveStatusThreshold: the threshold day itself counts as valid
AboveStatusThresholdInclusive(n) == n >= EXPIRY_THRESHOLD_DAYS

\* "if days_remaining > _EXPIRY_THRESHOLD_DAYS"
AboveStatusThreshold(n) == n > EXPIRY_THRESHOLD_DAYS

\* _classify_status
ClassifyStatus(dr) ==
    CASE ~dr.known -> "valid"
      [] dr.known /\ AboveStatusThreshold(dr.days) -> "valid"
      [] dr.known /\ ~AboveStatusThreshold(dr.days) /\ dr.days > 0 -> "expiring_soon"
      [] OTHER -> "expired"

\* the entries a listing can hold: expiry None, or an expiry from
\* MaxDaysPast days ago to MaxDaysAhead days ahead
StatusEntries(t) ==
    {UnknownExpiry} \cup
    {Expires(e) : e \in (t - MaxDaysPast * TicksPerDay)
                        .. (t + MaxDaysAhead * TicksPerDay + TicksPerDay - 1)}

\* one pass of "for cert in certs" of _collect_status: days_remaining is
\* (expiry - now).days or None, status is _classify_status(days_remaining)
StatusClassify ==
    /\ status = "none"
    /\ days_remaining' = IF cert.known
                         THEN Days(DaysRemaining(cert.expiry, now))
                         ELSE NoDays
    /\ status' = ClassifyStatus(days_remaining')
    /\ UNCHANGED <<acmeVars, initVars, histVars, config, runVars, cert,
                   gwVars, cleanupVars, responderVars, pipelineVars, writerVars>>

\* ------------------------------------------------------------ azure_gateway

\* names of the HTTPS listeners and SSL certificates a gateway can hold
ListenerNames == {"ln-a", "ln-b"}
CertNames == {"a-example-cert", "b-example-cert"}
\* names of path rules: two with the reserved prefix (one of them the bare
\* prefix), one that lacks its last character
RuleNames == {"acme-challenge-a.example", "acme-challenge-", "acme-challenge"}

\* exceptions raised by the SDK are told apart by an id
ArmErrIds == {"e1"}

\* the ARM resource id of a certificate of a gateway
CertId(g, n) == g \o "/sslCertificates/" \o n

\* an ApplicationGateway without child resources
EmptyGateway ==
    [ssl_certificates |-> <<>>, http_listeners |-> <<>>, url_path_maps |-> <<>>]

RECURSIVE RuleCount(_)
\* the number of path rules of the path maps upms
RuleCount(upms) ==
    IF upms = <<>> THEN 0 ELSE Len(Head(upms)) + RuleCount(Tail(upms))

\* the number of child resources of a gateway
GatewaySize(gw) ==
    Len(gw.ssl_certificates) + Len(gw.http_listeners) + Len(gw.url_path_maps)
    + RuleCount(gw.url_path_maps)

\* ... and of the gateways of the subscription
ArmSize == GatewaySize(arm["agw-alpha"]) + GatewaySize(arm["agw-beta"])

\* the names of a sequence of child resources
NamesOf(s) == {s[i].name : i \in 1..Len(s)}

\* next((x for x in s if x.name == name), None): the position of the first
\* match, 0 for None
FirstNamed(s, name) ==
    IF name \in NamesOf(s)
    THEN CHOOSE i \in 1..Len(s) :
            /\ s[i].name = name
            /\ \A j \in 1..(i - 1) : s[j].name # name
    ELSE 0

\* the operator adds a certificate to gateway g outside the tool: with or
\* without public data (a Key Vault reference has none), and with the id
\* the control plane gives it (the SDK types the id as optional)
ArmAddCert(g) ==
    /\ gop = "idle"
    /\ cmd = "idle"
    /\ ArmSize < MaxArm
    /\ \E n \in CertNames \ NamesOf(arm[g].ssl_certificates) :
       \E id \in {CertId(g, n), "none"}, data \in {"der", "none"} :
        arm' = [arm EXCEPT ![g].ssl_certificates =
                    Append(@, [name |-> n, id |-> id, public_cert_data |-> data])]

\* ... an HTTPS listener bound to one of the gateway's certificates
ArmAddListener(g) ==
    /\ gop = "idle"
    /\ cmd = "idle"
    /\ ArmSize < MaxArm
    /\ \E n \in ListenerNames \ NamesOf(arm[g].http_listeners),
          i \in 1..Len(arm[g].ssl_certificates) :
        /\ arm[g].ssl_certificates[i].id # "none"
        /\ arm' = [arm EXCEPT ![g].http_listeners =
                    Append(@, [name |-> n,
                               ssl_certificate |-> arm[g].ssl_certificates[i].id])]

\* ... a URL path map
ArmAddPathMap(g) ==
    /\ gop = "idle"
    /\ cmd = "idle"
    /\ ArmSize < MaxArm
    /\ arm' = [arm EXCEPT ![g].url_path_maps = Append(@, <<>>)]

\* ... a path rule to the last URL path map (the tool's issuance leaves
\* rules with the reserved prefix behind; rule names are unique within a
\* path map, not across path maps)
ArmAddRule(g) ==
    /\ gop = "idle"
    /\ cmd = "idle"
    /\ ArmSize < MaxArm
    /\ arm[g].url_path_maps # <<>>
    /\ LET k == Len(arm[g].url_path_maps) IN
       \E n \in RuleNames :
        /\ \A i \in 1..Len(arm[g].url_path_maps[k]) : arm[g].url_path_maps[k][i] # n
        /\ arm' = [arm EXCEPT ![g].url_path_maps[k] = Append(@, n)]

\* a change of the gateways made outside the tool, between its calls
ArmChange(A) ==
    /\ A
    /\ arm_before' = arm'
    /\ pass_start' = arm'
    /\ UNCHANGED <<acmeVars, initVars, histVars, config, runVars, statusVars,
                   gw_name, gop, gpc, gateway, gargs, gtrace, gresult,
                   cleanup_all, gw_idx, rules, rule_idx, total_found,
                   total_removed, ctrace, last_pass, responderVars, pipelineVars, writerVars>>

NoArgs == [listener_name |-> "none", cert_name |-> "none", rule_name |-> "none"]

GwNoResult == [kind |-> "none", val |-> "none", gateway |-> "none", cause |-> "none"]
GwReturn(v) == [kind |-> "return", val |-> v, gateway |-> "none", cause |-> "none"]
\* AzureGatewayError(msg): the message, the gateway it names (if any) and
\* the underlying error
AzureGatewayError(msg, g, cause) ==
    [kind |-> "AzureGatewayError", val |-> msg, gateway |-> g, cause |-> cause]
\* an exception of another kind leaves the method as it is
GwRaw(res, e) == [kind |-> "raw", val |-> res, gateway |-> "none", cause |-> e]

\* a method of an AzureGatewayClient for gateway g is called: each method
\* starts with self._get_gateway()
GwCall(g, method, args) ==
    /\ gop = "idle"
    /\ gw_name' = g
    /\ gop' = method
    /\ gpc' = "get"
    /\ gargs' = args
    /\ gateway' = EmptyGateway
    /\ gtrace' = <<>>
    /\ gresult' = GwNoResult
    /\ arm_before' = arm
    /\ UNCHANGED arm

Methods ==
    {"list_certificates", "get_certificate_expiry", "update_listener_certificate",
     "list_acme_challenge_rules", "delete_routing_rule"}

\* the arguments a method takes
ArgsOf(method) ==
    CASE method = "get_certificate_expiry" ->
           {[NoArgs EXCEPT !.cert_name = c] : c \in CertNames}
      [] method = "update_listener_certificate" ->
           {[NoArgs EXCEPT !.listener_name = l, !.cert_name = c] :
                l \in ListenerNames, c \in CertNames}
      [] method = "delete_routing_rule" ->
           {[NoArgs EXCEPT !.rule_name = r] : r \in RuleNames}
      [] OTHER -> {NoArgs}

\* a caller constructs a client for gateway g and calls one of its methods
GwCallAny(g) ==
    /\ cmd = "idle"
    /\ \E method \in Methods : \E args \in ArgsOf(method) : GwCall(g, method, args)

\* "except HttpResponseError as exc: raise AzureGatewayError(...) from exc"
AfterGetFailure(e) ==
    /\ gpc' = "done"
    /\ gresult' = AzureGatewayError("Failed to fetch Application Gateway", gw_name, e)

\* _get_gateway: application_gateways.get returns the resource, raises
\* HttpResponseError, or raises an exception of another kind (a transport
\* error), which no clause catches
GetGateway ==
    /\ gpc = "get"
    /\ \/ /\ gateway' = arm[gw_name]
          /\ gtrace' = Append(gtrace, [fn |-> "get", res |-> "ok"])
          /\ gpc' = "body"
          /\ UNCHANGED gresult
       \/ \E e \in ArmErrIds :
            /\ gtrace' = Append(gtrace, [fn |-> "get", res |-> "HttpResponseError"])
            /\ AfterGetFailure(e)
            /\ UNCHANGED gateway
       \/ \E e \in ArmErrIds :
            /\ gtrace' = Append(gtrace, [fn |-> "get", res |-> "other_err"])
            /\ gpc' = "done"
            /\ gresult' = GwRaw("other_err", e)
            /\ UNCHANGED gateway
    /\ UNCHANGED <<arm, gw_name, gop, gargs, arm_before>>

\* _parse_expiry: None without public data, else the certificate's
\* not_valid_after
ParseExpiry(public_cert_data) ==
    IF public_cert_data = "none" THEN "none" ELSE "not_valid_after"

\* list_certificates after the fetch: name and expiry of every certificate
ListCertificates(gw) ==
    [i \in 1..Len(gw.ssl_certificates) |->
        [name |-> gw.ssl_certificates[i].name,
         expiry |-> ParseExpiry(gw.ssl_certificates[i].public_cert_data)]]

\* get_certificate_expiry after the listing
GetCertificateExpiry(certs, cert_name) ==
    LET i == FirstNamed(certs, cert_name) IN
    CASE i = 0 -> AzureGatewayError("Certificate not found", gw_name, "none")
      [] i > 0 /\ certs[i].expiry = "none" ->
           AzureGatewayError("Expiry date unavailable", "none", "none")
      [] OTHER -> GwReturn(certs[i].expiry)

\* rule.name.startswith(prefix)
StartsWith(s, prefix) ==
    /\ Len(s) >= Len(prefix)
    /\ SubSeq(s, 1, Len(prefix)) = prefix

\* mutant of IsChallengeRule: every rule is taken for a challenge rule
IsAnyRule(name) == TRUE

\* rule.name and rule.name.startswith("acme-challenge-")
IsChallengeRule(name) == name # "" /\ StartsWith(name, "acme-challenge-")

RECURSIVE ListAcmeChallengeRules(_)
\* list_acme_challenge_rules after the fetch: the matching names of every
\* path map, in order, repeated as often as they occur
ListAcmeChallengeRules(upms) ==
    IF upms = <<>> THEN <<>>
    ELSE SelectSeq(Head(upms), IsChallengeRule) \o ListAcmeChallengeRules(Tail(upms))

\* mutant of Filtered: the condition of the filter is the wrong way round
FilteredInverted(original, rule_name) ==
    LET Keep(r) == r = rule_name IN SelectSeq(original, Keep)

\* [r for r in original if r.name != rule_name]
Filtered(original, rule_name) ==
    LET Keep(r) == r # rule_name IN SelectSeq(original, Keep)

\* the methods without a push end after the fetch
ReadBody ==
    /\ gpc = "body"
    /\ gop \in {"list_certificates", "get_certificate_expiry",
                "list_acme_challenge_rules"}
    /\ gpc' = "done"
    /\ gresult' =
         CASE gop = "list_certificates" -> GwReturn(ListCertificates(gateway))
           [] gop = "get_certificate_expiry" ->
                GetCertificateExpiry(ListCertificates(gateway), gargs.cert_name)
           [] OTHER -> GwReturn(ListAcmeChallengeRules(gateway.url_path_maps))
    /\ UNCHANGED <<arm, gw_name, gop, gateway, gargs, gtrace, arm_before>>

\* mutant of MissingId: a certificate without id is referenced all the same
MissingIdNever(id) == FALSE

\* "if target_cert.id is None"
MissingId(id) == id = "none"

\* mutant of Rebound: every listener is given the reference
ReboundAll(listeners, li, id) ==
    [i \in 1..Len(listeners) |-> [listeners[i] EXCEPT !.ssl_certificate = id]]

\* target_listener.ssl_certificate = SubResource(id=target_cert.id)
Rebound(listeners, li, id) == [listeners EXCEPT ![li].ssl_certificate = id]

\* update_listener_certificate from the fetch to the push: the listener and
\* the certificate are looked up and the listener's reference is rewritten
\* in the fetched configuration
UpdateListenerBody ==
    /\ gpc = "body"
    /\ gop = "update_listener_certificate"
    /\ LET li == FirstNamed(gateway.http_listeners, gargs.listener_name)
           ci == FirstNamed(gateway.ssl_certificates, gargs.cert_name)
       IN  CASE li = 0 ->
                  /\ gresult' = AzureGatewayError("Listener not found", gw_name, "none")
                  /\ gpc' = "done"
                  /\ UNCHANGED gateway
             [] li > 0 /\ ci = 0 ->
                  /\ gresult' = AzureGatewayError("Certificate not found", gw_name, "none")
                  /\ gpc' = "done"
                  /\ UNCHANGED gateway
             [] li > 0 /\ ci > 0 /\ MissingId(gateway.ssl_certificates[ci].id) ->
                  /\ gresult' = AzureGatewayError("no ARM resource ID", "none", "none")
                  /\ gpc' = "done"
                  /\ UNCHANGED gateway
             [] OTHER ->
                  /\ gateway' = [gateway EXCEPT !.http_listeners =
                                     Rebound(@, li, gateway.ssl_certificates[ci].id)]
                  /\ gpc' = "push"
                  /\ UNCHANGED gresult
    /\ UNCHANGED <<arm, gw_name, gop, gargs, gtrace, arm_before>>

\* delete_routing_rule from the fetch to the push: the rule is filtered out
\* of every path map that holds it
DeleteRuleBody ==
    /\ gpc = "body"
    /\ gop = "delete_routing_rule"
    /\ LET upms == gateway.url_path_maps
           found == \E k \in 1..Len(upms) :
                       Len(Filtered(upms[k], gargs.rule_name)) < Len(upms[k])
       IN  IF ~found
           THEN /\ gresult' = AzureGatewayError("Path rule not found", gw_name, "none")
                /\ gpc' = "done"
                /\ UNCHANGED gateway
           ELSE /\ gateway' =
                     [gateway EXCEPT !.url_path_maps =
                        [k \in 1..Len(upms) |->
                            IF Len(Filtered(upms[k], gargs.rule_name)) < Len(upms[k])
                            THEN Filtered(upms[k], gargs.rule_name)
                            ELSE upms[k]]]
                /\ gpc' = "push"
                /\ UNCHANGED gresult
    /\ UNCHANGED <<arm, gw_name, gop, gargs, gtrace, arm_before>>

\* mutant of AfterPushFailure: the push is tried again
PushRetried(e) ==
    /\ gpc' = "push"
    /\ gresult' = gresult

\* "except HttpResponseError as exc: raise AzureGatewayError(...) from exc"
\* around begin_create_or_update and poller.result
AfterPushFailure(e) ==
    /\ gpc' = "done"
    /\ gresult' = AzureGatewayError(
                      IF gop = "update_listener_certificate"
                      THEN "Failed to update listener"
                      ELSE "Failed to delete path rule", gw_name, e)

\* mutant of Push: the control plane takes from the pushed configuration
\* only the parts the method changed
PushPatches ==
    /\ gpc = "push"
    /\ \/ /\ arm' = [arm EXCEPT ![gw_name] =
                      [ssl_certificates |-> @.ssl_certificates,
                       http_listeners |->
                          IF gateway.http_listeners = arm_before[gw_name].http_listeners
                          THEN @.http_listeners ELSE gateway.http_listeners,
                       url_path_maps |->
                          IF gateway.url_path_maps = arm_before[gw_name].url_path_maps
                          THEN @.url_path_maps ELSE gateway.url_path_maps]]
          /\ gtrace' = Append(gtrace, [fn |-> "begin_create_or_update", res |-> "ok"])
          /\ gpc' = "done"
          /\ gresult' = GwReturn("None")
       \/ \E e \in ArmErrIds :
            /\ gtrace' = Append(gtrace, [fn |-> "begin_create_or_update",
                                         res |-> "HttpResponseError"])
            /\ AfterPushFailure(e)
            /\ UNCHANGED arm
    /\ UNCHANGED <<gw_name, gop, gateway, gargs, arm_before>>

\* begin_create_or_update(parameters=gateway) and poller.result(timeout=600):
\* the control plane replaces the whole configuration by the one pushed and
\* the method returns; or it answers with an error (HttpResponseError) and
\* keeps its configuration; or the call ends with an exception of another
\* kind (a transport error), or the 600 s pass, in both cases with the
\* operation completed or not; no clause handles either, and a wait that
\* ran out of time ends without HttpResponseError
Push ==
    /\ gpc = "push"
    /\ \/ /\ arm' = [arm EXCEPT ![gw_name] = gateway]
          /\ gtrace' = Append(gtrace, [fn |-> "begin_create_or_update", res |-> "ok"])
          /\ gpc' = "done"
          /\ gresult' = GwReturn("None")
       \/ \E e \in ArmErrIds :
            /\ gtrace' = Append(gtrace, [fn |-> "begin_create_or_update",
                                         res |-> "HttpResponseError"])
            /\ AfterPushFailure(e)
            /\ UNCHANGED arm
       \/ \E e \in ArmErrIds :
            /\ gtrace' = Append(gtrace, [fn |-> "begin_create_or_update",
                                         res |-> "other_err"])
            /\ gpc' = "done"
            /\ gresult' = GwRaw("other_err", e)
            /\ arm' \in {arm, [arm EXCEPT ![gw_name] = gateway]}
       \/ /\ gtrace' = Append(gtrace, [fn |-> "begin_create_or_update",
                                       res |-> "timeout"])
          /\ gpc' = "done"
          /\ gresult' \in {GwReturn("None"), GwRaw("timeout", "none")}
          /\ arm' \in {arm, [arm EXCEPT ![gw_name] = gateway]}
    /\ UNCHANGED <<gw_name, gop, gateway, gargs, arm_before>>

\* the method is over and its caller has seen the result: the locals of the
\* call are gone
GwFinish ==
    /\ gpc = "done"
    /\ gop' = "idle"
    /\ gpc' = "idle"
    /\ gw_name' = "none"
    /\ gateway' = EmptyGateway
    /\ gargs' = NoArgs
    /\ gtrace' = <<>>
    /\ gresult' = GwNoResult
    /\ arm_before' = arm
    /\ UNCHANGED arm

\* a step of a method of the gateway client
GwStep(A) ==
    /\ A
    /\ UNCHANGED <<acmeVars, initVars, histVars, config, runVars, statusVars,
                   cleanupVars, responderVars, pipelineVars, writerVars>>

\* no other invocation has pushed
NoWrite == [done |-> FALSE, gateway |-> EmptyGateway]

\* the configurations update_listener_certificate can push for a fetched
\* configuration gw: a listener of gw bound to a certificate of gw that has
\* an id
UpdatesOf(gw) ==
    {[gw EXCEPT !.http_listeners = Rebound(@, li, gw.ssl_certificates[ci].id)] :
        li \in 1..Len(gw.http_listeners),
        ci \in {i \in 1..Len(gw.ssl_certificates) : ~MissingId(gw.ssl_certificates[i].id)}}

\* ... and those delete_routing_rule can push: gw without a rule name that
\* one of its path maps holds
DeletesOf(gw) ==
    {[gw EXCEPT !.url_path_maps =
         [k \in 1..Len(gw.url_path_maps) |-> Filtered(gw.url_path_maps[k], r)]] :
        r \in {n \in RuleNames :
                 \E k \in 1..Len(gw.url_path_maps) :
                    Len(Filtered(gw.url_path_maps[k], n)) < Len(gw.url_path_maps[k])}}

\* another invocation of update_listener_certificate or delete_routing_rule
\* on the same gateway, which fetched the configuration the method in
\* progress fetched, pushes its change before the method pushes its own; the
\* control plane accepts it and that invocation returns
OtherWriterPush ==
    /\ gop \in {"update_listener_certificate", "delete_routing_rule"}
    /\ gpc \in {"body", "push"}
    /\ ~other_write.done
    /\ \E pushed \in (UpdatesOf(arm[gw_name]) \cup DeletesOf(arm[gw_name]))
                        \ {arm[gw_name]} :
        /\ arm' = [arm EXCEPT ![gw_name] = pushed]
        /\ other_write' = [done |-> TRUE, gateway |-> pushed]
    /\ UNCHANGED <<acmeVars, initVars, histVars, config, runVars, statusVars,
                   gw_name, gop, gpc, gateway, gargs, gtrace, gresult,
                   arm_before, cleanupVars, responderVars, pipelineVars>>

\* a step of a method of the gateway client while another invocation may
\* write: what that invocation pushed is remembered until the method is over
WriterStep(A) ==
    /\ A
    /\ other_write' = IF gop' = "idle" THEN NoWrite ELSE other_write
    /\ UNCHANGED <<acmeVars, initVars, histVars, config, runVars, statusVars,
                   cleanupVars, responderVars, pipelineVars>>

\* a caller constructs a client for gateway g and calls a method that
\* writes
GwCallWrite(g) ==
    /\ cmd = "idle"
    /\ \E method \in {"update_listener_certificate", "delete_routing_rule"} :
        \E args \in ArgsOf(method) : GwCall(g, method, args)

\* ---------------------------------------------------------- cleanup_command

\* no pass of cleanup has been run
NoPass == [ran |-> FALSE, clean |-> FALSE]

CleanupError(msg, cause) == [kind |-> "CleanupError", val |-> msg, cause |-> cause]

\* the control-plane calls of a pass in short: how many fetches and pushes
\* were made and whether any of them failed
NoCalls == [gets |-> 0, pushes |-> 0, failed |-> FALSE]
CallsAfter(c, t) ==
    [gets |-> c.gets + Cardinality({i \in 1..Len(t) : t[i].fn = "get"}),
     pushes |-> c.pushes
                + Cardinality({i \in 1..Len(t) : t[i].fn = "begin_create_or_update"}),
     failed |-> c.failed \/ \E i \in 1..Len(t) : t[i].res # "ok"]

\* run_cleanup up to the loop: parse_config, the credential, the counters
CleanupStart ==
    /\ cmd = "idle"
    /\ gop = "idle"
    /\ cmd' = "cleanup"
    /\ pass_start' = arm
    /\ \E all \in BOOLEAN, readable \in BOOLEAN :
        /\ cleanup_all' = all
        /\ IF ~readable \/ ~ValidConfig(config)
           THEN /\ cmd_result' = CleanupError("Failed to load configuration", "none")
                /\ cpc' = "done"
                /\ UNCHANGED gw_idx
           ELSE /\ gw_idx' = 1
                /\ cpc' = "gateway"
                /\ UNCHANGED cmd_result
    /\ UNCHANGED <<acmeVars, confirm, histVars, config, runVars, statusVars, gwVars,
                   rules, rule_idx, total_found, total_removed, ctrace, last_pass,
                   responderVars, pipelineVars, writerVars>>

\* "for gateway_cfg in config.gateways": a client for the gateway is made
\* and client.list_acme_challenge_rules() is called
CleanupList ==
    /\ cmd = "cleanup"
    /\ cpc = "gateway"
    /\ gw_idx <= Len(config)
    /\ GwCall(config[gw_idx].name, "list_acme_challenge_rules", NoArgs)
    /\ cpc' = "listing"
    /\ UNCHANGED <<acmeVars, cmd, cmd_result, confirm, histVars, config, runVars,
                   statusVars, cleanupVars, responderVars, pipelineVars, writerVars>>

\* list_acme_challenge_rules is back: AzureGatewayError becomes
\* CleanupError; "if not rules: continue"; total_found += len(rules)
CleanupListReturn ==
    /\ cmd = "cleanup"
    /\ cpc = "listing"
    /\ GwFinish
    /\ ctrace' = CallsAfter(ctrace, gtrace)
    /\ CASE gresult.kind = "AzureGatewayError" ->
              /\ cmd_result' = CleanupError("Failed to list ACME challenge rules",
                                            gresult.val)
              /\ cpc' = "done"
              /\ UNCHANGED <<gw_idx, rules, rule_idx, total_found>>
         [] gresult.kind = "raw" ->
              /\ cmd_result' = CmdRaw(gresult.val, gresult.cause)
              /\ cpc' = "done"
              /\ UNCHANGED <<gw_idx, rules, rule_idx, total_found>>
         [] gresult.kind = "return" /\ gresult.val = <<>> ->
              /\ gw_idx' = gw_idx + 1
              /\ cpc' = "gateway"
              /\ UNCHANGED <<cmd_result, rules, rule_idx, total_found>>
         [] OTHER ->
              /\ rules' = gresult.val
              /\ rule_idx' = 1
              /\ total_found' = total_found + Len(gresult.val)
              /\ cpc' = "rule"
              /\ UNCHANGED <<cmd_result, gw_idx>>
    /\ UNCHANGED <<acmeVars, cmd, confirm, histVars, config, runVars, statusVars,
                   cleanup_all, total_removed, pass_start, last_pass, responderVars, pipelineVars, writerVars>>

\* mutant of ShouldDelete: batch mode asks as well
ShouldDeleteAsked(all, answer) == answer

\* should_delete: True in batch mode, else the answer of click.confirm
ShouldDelete(all, answer) == all \/ answer

\* "for i, rule_name in enumerate(rules, start=1)": should_delete is
\* decided and, if so, client.delete_routing_rule(rule_name) is called
CleanupRule ==
    /\ cmd = "cleanup"
    /\ cpc = "rule"
    /\ rule_idx <= Len(rules)
    /\ \E answer \in BOOLEAN :
        /\ IF ShouldDelete(cleanup_all, answer)
           THEN /\ GwCall(config[gw_idx].name, "delete_routing_rule",
                          [NoArgs EXCEPT !.rule_name = rules[rule_idx]])
                /\ cpc' = "deleting"
                /\ UNCHANGED rule_idx
           ELSE /\ rule_idx' = rule_idx + 1
                /\ UNCHANGED <<cpc, gwVars>>
    /\ UNCHANGED <<acmeVars, cmd, cmd_result, confirm, histVars, config, runVars,
                   statusVars, cleanup_all, gw_idx, rules, total_found,
                   total_removed, ctrace, pass_start, last_pass, responderVars, pipelineVars, writerVars>>

\* delete_routing_rule is back: AzureGatewayError becomes CleanupError, else
\* "Removed" is echoed and total_removed += 1
CleanupDeleteReturn ==
    /\ cmd = "cleanup"
    /\ cpc = "deleting"
    /\ GwFinish
    /\ ctrace' = CallsAfter(ctrace, gtrace)
    /\ CASE gresult.kind = "AzureGatewayError" ->
              /\ cmd_result' = CleanupError("Failed to delete rule", gresult.val)
              /\ cpc' = "done"
              /\ UNCHANGED <<rule_idx, total_removed>>
         [] gresult.kind = "raw" ->
              /\ cmd_result' = CmdRaw(gresult.val, gresult.cause)
              /\ cpc' = "done"
              /\ UNCHANGED <<rule_idx, total_removed>>
         [] OTHER ->
              /\ total_removed' = total_removed + 1
              /\ rule_idx' = rule_idx + 1
              /\ cpc' = "rule"
              /\ UNCHANGED cmd_result
    /\ UNCHANGED <<acmeVars, cmd, confirm, histVars, config, runVars, statusVars,
                   cleanup_all, gw_idx, rules, total_found, pass_start, last_pass,
                   responderVars, pipelineVars, writerVars>>

\* the rules of the gateway are through: the next gateway
CleanupNextGateway ==
    /\ cmd = "cleanup"
    /\ cpc = "rule"
    /\ rule_idx > Len(rules)
    /\ gw_idx' = gw_idx + 1
    /\ rules' = <<>>
    /\ rule_idx' = 0
    /\ cpc' = "gateway"
    /\ UNCHANGED <<acmeVars, cmd, cmd_result, confirm, histVars, config, runVars,
                   statusVars, gwVars, cleanup_all, total_found, total_removed,
                   ctrace, pass_start, last_pass, responderVars, pipelineVars, writerVars>>

\* the gateways are through: "if total_found == 0: echo(No orphaned ...)"
CleanupEnd ==
    /\ cmd = "cleanup"
    /\ cpc = "gateway"
    /\ gw_idx > Len(config)
    /\ cmd_result' = IF total_found = 0
                     THEN CmdReturn("No orphaned ACME challenge rules found.")
                     ELSE CmdReturn("None")
    /\ cpc' = "done"
    /\ UNCHANGED <<acmeVars, cmd, confirm, histVars, config, runVars, statusVars,
                   gwVars, cleanupVars, responderVars, pipelineVars, writerVars>>

\* the process of cleanup exits; it is kept as history whether the pass was
\* one in batch mode that loaded its configuration and had every
\* control-plane call succeed
CleanupFinish ==
    /\ cmd = "cleanup"
    /\ cpc = "done"
    /\ last_pass' = [ran |-> TRUE,
                     clean |-> cleanup_all /\ gw_idx > 0 /\ ~ctrace.failed]
    /\ cmd' = "idle"
    /\ cpc' = "idle"
    /\ cmd_result' = CmdNone
    /\ cleanup_all' = FALSE
    /\ gw_idx' = 0
    /\ rules' = <<>>
    /\ rule_idx' = 0
    /\ total_found' = 0
    /\ total_removed' = 0
    /\ ctrace' = NoCalls
    /\ pass_start' = arm
    /\ UNCHANGED <<acmeVars, confirm, histVars, config, runVars, statusVars, gwVars,
                   responderVars, pipelineVars, writerVars>>

\* ------------------------------------------------- azure-function responder

\* the values of the application setting ACME_CHALLENGE_RESPONSE: not set,
\* empty, or a key-authorization
KeyAuthorizations == {"tok1.thumb", "tok2.thumb"}
Settings == {"unset", ""} \cup KeyAuthorizations
\* the tokens of the request paths
PathTokens == {"tok1", "tok2", "other"}

\* os.environ.get("ACME_CHALLENGE_RESPONSE", "")
EnvironGet(setting) == IF setting = "unset" THEN "" ELSE setting

\* func.HttpResponse(...)
HttpResponse(status_code, body, mimetype) ==
    [status_code |-> status_code, body |-> body, mimetype |-> mimetype]

\* mutant of Responder: an empty setting is served as an empty body
ResponderServesEmpty(token, setting) ==
    IF setting = "unset"
    THEN HttpResponse(404, "", "none")
    ELSE HttpResponse(200, setting, "text/plain")

\* acme_challenge_responder: the token of the path is not read
Responder(token, setting) ==
    LET challenge_response == EnvironGet(setting) IN
    IF challenge_response = ""
    THEN HttpResponse(404, "", "none")
    ELSE HttpResponse(200, challenge_response, "text/plain")

\* the CLI (or the operator) writes or removes the application setting
SetChallengeResponse ==
    /\ \E s \in Settings \ {app_setting} : app_setting' = s
    /\ UNCHANGED <<acmeVars, initVars, histVars, config, runVars, statusVars,
                   gwVars, cleanupVars, served, pipelineVars, writerVars>>

\* GET /.well-known/acme-challenge/{token} is answered
ServeRequest ==
    /\ Len(served) < MaxRequests
    /\ \E token \in PathTokens :
        served' = Append(served, [token |-> token, setting |-> app_setting,
                                  response |-> Responder(token, app_setting)])
    /\ UNCHANGED <<acmeVars, initVars, histVars, config, runVars, statusVars,
                   gwVars, cleanupVars, app_setting, pipelineVars, writerVars>>

\* ------------------------------------------------- the issuance pipeline
\* The body of _issue_single_domain in this source tree is a placeholder
\* that raises NotImplementedError.  The definitions of this section are
\* the pipeline of section 4.4 of the specification, run where run_issue
\* calls _issue_single_domain; the counting around it is run_issue's.

\* mutant of PipelineSteps: the CA is notified before the key-authorization
\* is published
PipelineStepsAnswerFirst ==
    <<"register_account", "new_order", "get_http01_challenge",
      "answer_challenge", "publish", "poll_until_valid", "finalize_order",
      "download_certificate", "deploy", "remove_rule">>

\* steps 1 to 10 of the pipeline, in order
PipelineSteps ==
    <<"register_account", "new_order", "get_http01_challenge", "publish",
      "answer_challenge", "poll_until_valid", "finalize_order",
      "download_certificate", "deploy", "remove_rule">>

\* the temporary routing rule of a domain
RuleFor(d) == "acme-challenge-" \o d

\* rule n is in a path map of gateway gw
HasRule(gw, n) ==
    \E k \in 1..Len(gw.url_path_maps) :
        \E i \in 1..Len(gw.url_path_maps[k]) : gw.url_path_maps[k][i] = n

\* step 4: the rule of the domain is created in the first path map, unless
\* the gateway has it
WithRule(gw, n) ==
    IF HasRule(gw, n) THEN gw
    ELSE [gw EXCEPT !.url_path_maps[1] = Append(@, n)]

\* step 10: the rule is removed from every path map
WithoutRule(gw, n) ==
    [gw EXCEPT !.url_path_maps =
        [k \in 1..Len(gw.url_path_maps) |-> Filtered(gw.url_path_maps[k], n)]]

\* mutant of PipelineRaises: a failure of the removal of the rule is fatal
PipelineRaisesAlways(name, ok) == ~ok

\* a failure of steps 1 to 9 aborts the pipeline; a failure of step 10 is
\* logged
PipelineRaises(name, ok) == ~ok /\ name # "remove_rule"

\* "_issue_single_domain(target, config)" in the loop of run_issue is
\* entered
PipelineStart ==
    /\ cpc = "issue_loop"
    /\ idx <= Len(targets)
    /\ ~SkipsIssuance(dry_run)
    /\ issued' = Append(issued, targets[idx])
    /\ cpc' = "pipeline"
    /\ step' = 1
    /\ key_auth' = "none"
    /\ steps' = <<>>
    /\ UNCHANGED <<acmeVars, cmd, cmd_result, confirm, histVars, config,
                   gateway_filter, domain_filter, dry_run, targets, idx,
                   succeeded, failed, total, echoed, renewVars, statusVars,
                   gwVars, cleanupVars, responderVars, writerVars>>

\* one step of the pipeline succeeds or fails; the pipeline raises on a
\* fatal failure and returns after the last step
PipelineStep ==
    /\ cpc = "pipeline"
    /\ LET target == targets[idx]
           name == PipelineSteps[step]
           g == target.gateway_name
           rule == RuleFor(target.domain)
       IN
       \E ok \in BOOLEAN :
        /\ steps' = Append(steps, [name |-> name, ok |-> ok])
        /\ CASE name = "get_http01_challenge" /\ ok ->
                  /\ key_auth' \in KeyAuthorizations
                  /\ UNCHANGED <<app_setting, arm>>
             [] name = "publish" /\ ok ->
                  /\ arm[g].url_path_maps # <<>>
                  /\ app_setting' = key_auth
                  /\ arm' = [arm EXCEPT ![g] = WithRule(@, rule)]
                  /\ UNCHANGED key_auth
             [] name = "publish" /\ ~ok ->
                  /\ app_setting' \in {app_setting, key_auth}
                  /\ UNCHANGED <<key_auth, arm>>
             [] name = "remove_rule" /\ ok ->
                  /\ arm' = [arm EXCEPT ![g] = WithoutRule(@, rule)]
                  /\ UNCHANGED <<key_auth, app_setting>>
             [] OTHER ->
                  UNCHANGED <<key_auth, app_setting, arm>>
        /\ cpc' = IF PipelineRaises(name, ok) THEN "pipeline_raised"
                  ELSE IF step = Len(PipelineSteps) THEN "pipeline_returned"
                  ELSE "pipeline"
        /\ step' = IF cpc' = "pipeline" THEN step + 1 ELSE 0
    /\ UNCHANGED <<acmeVars, cmd, cmd_result, confirm, histVars, config,
                   runVars, statusVars, gw_name, gop, gpc, gateway, gargs,
                   gtrace, gresult, arm_before, cleanupVars, served,
                   writerVars>>

\* the try statement around _issue_single_domain in run_issue: the call
\* has returned or raised, the target is counted and the loop goes on
PipelineReturn ==
    /\ cpc \in {"pipeline_returned", "pipeline_raised"}
    /\ LET target == targets[idx] IN
        IF cpc = "pipeline_returned"
        THEN /\ echoed' = Append(echoed, Echo("OK", target))
             /\ succeeded' = succeeded + 1
             /\ UNCHANGED failed
        ELSE /\ echoed' = Append(echoed, Echo("FAILED", target))
             /\ failed' = failed + 1
             /\ UNCHANGED succeeded
    /\ idx' = idx + 1
    /\ cpc' = "issue_loop"
    /\ UNCHANGED <<acmeVars, cmd, cmd_result, confirm, histVars, config,
                   gateway_filter, domain_filter, dry_run, targets, total,
                   issued, renewVars, otherVars>>

\* the operation is over and its caller has seen the result: the client is
\* idle again, the locals of the call are gone
Finish ==
    /\ pc = "done"
    /\ op' = "idle"
    /\ pc' = "idle"
    /\ genkey' = "none"
    /\ account_url' = "none"
    /\ attempt' = 0
    /\ last_exc' = "none"
    /\ challb' = "none"
    /\ order' = <<>>
    /\ domain' = "none"
    /\ timeout_seconds' = 0
    /\ interval_seconds' = 0
    /\ deadline' = 0
    /\ now' = 0
    /\ trace' = <<>>
    /\ result' = NoResult
    /\ UNCHANGED <<clientVars, keyfile>>

InitLocals ==
    /\ op = "idle"
    /\ pc = "idle"
    /\ genkey = "none"
    /\ account_url = "none"
    /\ attempt = 0
    /\ last_exc = "none"
    /\ challb = "none"
    /\ order = <<>>
    /\ domain = "none"
    /\ timeout_seconds = 0
    /\ interval_seconds = 0
    /\ deadline = 0
    /\ now = 0
    /\ trace = <<>>
    /\ result = NoResult
    /\ cmd = "idle"
    /\ cpc = "idle"
    /\ cmd_result = CmdNone
    /\ confirm = "none"
    /\ keyfile_before = keyfile
    /\ created = keyfile.content
    /\ config = <<>>
    /\ gateway_filter = "none"
    /\ domain_filter = "none"
    /\ dry_run = FALSE
    /\ targets = <<>>
    /\ idx = 0
    /\ succeeded = 0
    /\ failed = 0
    /\ total = 0
    /\ issued = <<>>
    /\ echoed = <<>>
    /\ force = FALSE
    /\ days = 0
    /\ renewed = 0
    /\ skipped = 0
    /\ cert_cache = <<>>
    /\ fetched = <<>>

\* the gateways hold nothing yet, no method of a gateway client and no
\* pass of cleanup is in progress, the responder has no setting
InitAzure ==
    /\ arm = [g \in GwNames |-> EmptyGateway]
    /\ gw_name = "none"
    /\ gop = "idle"
    /\ gpc = "idle"
    /\ gateway = EmptyGateway
    /\ gargs = NoArgs
    /\ gtrace = <<>>
    /\ gresult = GwNoResult
    /\ arm_before = arm
    /\ cleanup_all = FALSE
    /\ gw_idx = 0
    /\ rules = <<>>
    /\ rule_idx = 0
    /\ total_found = 0
    /\ total_removed = 0
    /\ ctrace = NoCalls
    /\ pass_start = arm
    /\ last_pass = NoPass
    /\ app_setting = "unset"
    /\ served = <<>>
    /\ step = 0
    /\ key_auth = "none"
    /\ steps = <<>>
    /\ other_write = NoWrite

\* no certificate is being classified
InitOther ==
    /\ cert = UnknownExpiry
    /\ days_remaining = NoDays
    /\ status = "none"
    /\ InitAzure

\* AcmeClient.__init__, and the key file as the operator left it
Init ==
    /\ account_key = "none"
    /\ acme_client = "none"
    /\ net_account = "none"
    /\ keyfile \in {NoFile} \cup {File(c, "0600") : c \in InitialContents}
    /\ InitLocals
    /\ InitOther

Next ==
    \/ ClientStart(RegisterStart)
    \/ ClientStep(RegisterChmod)
    \/ ClientStep(RegisterGetDirectory)
    \/ ClientStep(RegisterNewAccount)
    \/ ClientStep(RegisterQuery)
    \/ ClientStart(WithRetryStart)
    \/ ClientStart(NewOrderStart)
    \/ ClientStart(AnswerChallengeStart)
    \/ ClientStep(RetryCall)
    \/ ClientStep(RetrySleep)
    \/ ClientStart(PollStart)
    \/ ClientStep(PollCheck)
    \/ ClientStep(PollCall)
    \/ ClientStep(PollSleep)
    \/ ClientStart(FinalizeStart)
    \/ ClientStep(FinalizeCall)
    \/ ClientStart(GetHttp01Challenge)
    \/ ClientStep(Finish)

Spec == Init /\ [][Next]_vars

\* The client runs in one thread: a statement that can run does run, a call
\* to the CA comes back (the library call carries a deadline of its own) and
\* a sleep ends.
FairSpec ==
    /\ Spec
    /\ WF_vars(ClientStep(PollCheck))
    /\ WF_vars(ClientStep(PollCall))
    /\ WF_vars(ClientStep(PollSleep))

\* get_http01_challenge over the orders a CA can hand out, on a client that
\* is unregistered or registered with either key
InitChallenge ==
    /\ account_key \in {"none"} \cup Keys
    /\ acme_client = IF account_key = "none" THEN "none" ELSE "client"
    /\ net_account = IF account_key = "none" THEN "none" ELSE "acct1"
    /\ keyfile = IF account_key = "none" THEN NoFile ELSE File(account_key, "0600")
    /\ InitLocals
    /\ InitOther

NextChallenge ==
    \/ ClientStep(OrderAddAuthorization)
    \/ ClientStep(OrderAddChallenge)
    \/ ClientStart(GetHttp01Challenge)
    \/ ClientStep(Finish)

\* runs of init and of register_account, in any order, on the key file as
\* the operator left it
NextInit ==
    \/ InitStart
    \/ InitWrite
    \/ InitChmod
    \/ InitConfig
    \/ InitNewClient
    \/ InitRegisterCall
    \/ InitRegisterStep
    \/ InitRegisterReturn
    \/ CmdFinish
    \/ ClientStart(RegisterStart)
    \/ ClientStep(RegisterChmod)
    \/ ClientStep(RegisterGetDirectory)
    \/ ClientStep(RegisterNewAccount)
    \/ ClientStep(RegisterQuery)
    \/ ClientStep(Finish)

SpecInit == Init /\ [][NextInit]_vars

\* the batch commands run on an installation that init has set up
InitBatch ==
    /\ account_key = "none"
    /\ acme_client = "none"
    /\ net_account = "none"
    /\ keyfile = File("k1", "0600")
    /\ InitLocals
    /\ InitOther

\* runs of issue over the configurations an operator can write
NextIssue ==
    \/ ConfigAddGateway
    \/ ConfigAddDomain
    \/ IssueStart
    \/ IssueTarget
    \/ IssueSummary
    \/ CmdFinish

SpecIssue == InitBatch /\ [][NextIssue]_vars

\* runs of renew over the configurations an operator can write
NextRenew ==
    \/ ConfigAddGateway
    \/ ConfigAddDomain
    \/ RenewStart
    \/ RenewFetch
    \/ RenewTarget
    \/ RenewSummary
    \/ CmdFinish

SpecRenew == InitBatch /\ [][NextRenew]_vars

\* _collect_status has taken an entry from a listing
InitStatus ==
    /\ account_key = "none"
    /\ acme_client = "none"
    /\ net_account = "none"
    /\ keyfile = File("k1", "0600")
    /\ InitLocals
    /\ cert \in StatusEntries(now)
    /\ days_remaining = NoDays
    /\ status = "none"
    /\ InitAzure

NextStatus ==
    \/ StatusClassify

SpecStatus == InitStatus /\ [][NextStatus]_vars

\* run_renew, called with the default of --days and without --force, has
\* fetched a listing that holds the entry status has taken, at the same
\* instant
RenewAtEntry ==
    /\ cmd = "idle"
    /\ cmd' = "renew"
    /\ cpc' = "renew_loop"
    /\ days' = DEFAULT_DAYS
    /\ force' = FALSE
    /\ targets' = <<DomainTarget("agw-alpha", "a.example")>>
    /\ idx' = 1
    /\ fetched' = <<"agw-alpha">>
    /\ cert_cache' = CachePut(cert_cache, "agw-alpha",
                              [n \in {DomainToCertName("a.example")} |-> cert])
    /\ UNCHANGED <<acmeVars, cmd_result, confirm, histVars, config,
                   gateway_filter, domain_filter, dry_run, succeeded, failed,
                   total, issued, echoed, renewed, skipped, otherVars>>

\* renew and status on the same entry of a listing
NextAgree ==
    \/ StatusClassify
    \/ RenewAtEntry
    \/ RenewTarget

SpecAgree == InitStatus /\ [][NextAgree]_vars

SpecChallenge == InitChallenge /\ [][NextChallenge]_vars

\* the methods of a client for one gateway, on the gateway as the operator
\* has set it up
NextGateway ==
    \/ ArmChange(ArmAddCert("agw-alpha"))
    \/ ArmChange(ArmAddListener("agw-alpha"))
    \/ ArmChange(ArmAddPathMap("agw-alpha"))
    \/ ArmChange(ArmAddRule("agw-alpha"))
    \/ GwStep(GwCallAny("agw-alpha"))
    \/ GwStep(GetGateway)
    \/ GwStep(ReadBody)
    \/ GwStep(UpdateListenerBody)
    \/ GwStep(DeleteRuleBody)
    \/ GwStep(Push)
    \/ GwStep(GwFinish)

SpecGateway == InitBatch /\ [][NextGateway]_vars

\* the writing methods of a client for one gateway while a second
\* invocation writes to the same gateway
NextWriters ==
    \/ ArmChange(ArmAddCert("agw-alpha"))
    \/ ArmChange(ArmAddListener("agw-alpha"))
    \/ ArmChange(ArmAddPathMap("agw-alpha"))
    \/ ArmChange(ArmAddRule("agw-alpha"))
    \/ WriterStep(GwCallWrite("agw-alpha"))
    \/ WriterStep(GetGateway)
    \/ WriterStep(UpdateListenerBody)
    \/ WriterStep(DeleteRuleBody)
    \/ OtherWriterPush
    \/ WriterStep(Push)
    \/ WriterStep(GwFinish)

SpecWriters == InitBatch /\ [][NextWriters]_vars

\* a configuration entry for gateway n (cleanup reads the names only)
GatewayEntry(n) == [name |-> n, domains |-> <<"a.example">>]

\* the configurations cleanup is run on: one gateway, two gateways
CleanupConfigs ==
    {<<GatewayEntry("agw-alpha")>>,
     <<GatewayEntry("agw-alpha"), GatewayEntry("agw-beta")>>}

\* an installation with one of the configurations configs, nothing run yet
InitConfigured(configs) ==
    /\ account_key = "none"
    /\ acme_client = "none"
    /\ net_account = "none"
    /\ keyfile = File("k1", "0600")
    /\ op = "idle"
    /\ pc = "idle"
    /\ genkey = "none"
    /\ account_url = "none"
    /\ attempt = 0
    /\ last_exc = "none"
    /\ challb = "none"
    /\ order = <<>>
    /\ domain = "none"
    /\ timeout_seconds = 0
    /\ interval_seconds = 0
    /\ deadline = 0
    /\ now = 0
    /\ trace = <<>>
    /\ result = NoResult
    /\ cmd = "idle"
    /\ cpc = "idle"
    /\ cmd_result = CmdNone
    /\ confirm = "none"
    /\ keyfile_before = keyfile
    /\ created = keyfile.content
    /\ config \in configs
    /\ gateway_filter = "none"
    /\ domain_filter = "none"
    /\ dry_run = FALSE
    /\ targets = <<>>
    /\ idx = 0
    /\ succeeded = 0
    /\ failed = 0
    /\ total = 0
    /\ issued = <<>>
    /\ echoed = <<>>
    /\ force = FALSE
    /\ days = 0
    /\ renewed = 0
    /\ skipped = 0
    /\ cert_cache = <<>>
    /\ fetched = <<>>
    /\ InitOther

InitCleanup == InitConfigured(CleanupConfigs)

\* passes of cleanup over the rules found on the configured gateways; the
\* gateways are left alone once cleanup has been run
NextCleanup ==
    \/ ~last_pass.ran /\ \E i \in 1..Len(config) : ArmChange(ArmAddPathMap(config[i].name))
    \/ ~last_pass.ran /\ \E i \in 1..Len(config) : ArmChange(ArmAddRule(config[i].name))
    \/ CleanupStart
    \/ CleanupList
    \/ GwStep(GetGateway)
    \/ GwStep(ReadBody)
    \/ GwStep(DeleteRuleBody)
    \/ GwStep(Push)
    \/ CleanupListReturn
    \/ CleanupRule
    \/ CleanupDeleteReturn
    \/ CleanupNextGateway
    \/ CleanupEnd
    \/ CleanupFinish

SpecCleanup == InitCleanup /\ [][NextCleanup]_vars

\* requests to the responder, and changes of its setting between them
NextResponder ==
    \/ SetChallengeResponse
    \/ ServeRequest

SpecResponder == InitBatch /\ [][NextResponder]_vars

\* the configurations issue is run on: one target, two targets on one
\* gateway, two targets on two gateways
PipelineConfigs ==
    {<<[name |-> "agw-alpha", domains |-> <<"a.example">>]>>,
     <<[name |-> "agw-alpha", domains |-> <<"a.example", "b.example">>]>>,
     <<[name |-> "agw-alpha", domains |-> <<"a.example">>],
       [name |-> "agw-beta", domains |-> <<"b.example">>]>>}

InitPipeline == InitConfigured(PipelineConfigs)

\* runs of issue with the pipeline of each target run step by step, on
\* gateways that have a path map or none
NextPipeline ==
    \/ \E i \in 1..Len(config) :
        /\ arm[config[i].name].url_path_maps = <<>>
        /\ ArmChange(ArmAddPathMap(config[i].name))
    \/ IssueStart
    \/ dry_run /\ IssueTarget
    \/ PipelineStart
    \/ PipelineStep
    \/ PipelineReturn
    \/ IssueSummary
    \/ CmdFinish

SpecPipeline == InitPipeline /\ [][NextPipeline]_vars

\* ------------------------------------------------------------------ claims

\* the calls of the trace the operation made through _with_retry
RetryCalls == CallsOf(trace, RetryFn(op))

\* the trace is k attempts with a sleep between each two: call, sleep of
\* 10 s, call, sleep of 20 s, call
BackoffShape(t, k) ==
    /\ Len(t) = 2 * k - 1
    /\ \A i \in 1..k : t[2 * i - 1].kind = "call"
    /\ \A i \in 1..(k - 1) :
        /\ t[2 * i].kind = "sleep"
        /\ t[2 * i].d = 10 * (2 ^ (i - 1))
        /\ t[2 * i - 1].res = "acme_err"

\* C1: when the call wrapped by _with_retry raises an ACME error on attempts
\* 1..k-1 and succeeds on attempt k (k <= 3), the value of attempt k is
\* returned, the call was made exactly k times, and exactly k-1 sleeps
\* occurred, the i-th of 10*2^(i-1) seconds between attempts i and i+1.
C1_RetrySucceedsOnAttemptK ==
    (/\ op \in RetryOps
     /\ trace # <<>>
     /\ trace[Len(trace)].kind = "call"
     /\ trace[Len(trace)].res = "ok")
    => LET k == Cardinality(RetryCalls)
       IN  /\ k \in 1..3
           /\ BackoffShape(trace, k)
           /\ Cardinality(Sleeps(trace)) = k - 1
           /\ pc = "done"
           /\ result.kind = "return"
           /\ op # "answer_challenge" => result.val = trace[Len(trace)].val

C1_Witness ==
    /\ op = "with_retry"
    /\ pc = "done"
    /\ Len(trace) = 5
    /\ trace[5].res = "ok"
    /\ result = Return(trace[5].val)

\* C2: when the wrapped call raises an ACME error on all 3 attempts, exactly
\* 3 calls are made and never a 4th, exactly 2 sleeps occur (10 s then 20 s,
\* none after the last attempt), and the call ends with AcmeError naming the
\* attempt count 3 and the last underlying error.
C2_RetryExhausted ==
    op \in RetryOps =>
        /\ Cardinality(Calls(trace)) <= 3
        /\ (/\ Cardinality(RetryCalls) = 3
            /\ \A i \in RetryCalls : trace[i].res = "acme_err")
           => /\ BackoffShape(trace, 3)
              /\ Cardinality(Sleeps(trace)) = 2
              /\ pc = "done"
              /\ result.kind = "AcmeError"
              /\ result.n = 3
              /\ result.cause = trace[5].val

C2_Witness ==
    /\ op = "with_retry"
    /\ pc = "done"
    /\ result.kind = "AcmeError"
    /\ result.n = 3
    /\ Len(trace) = 5
    /\ trace[1].val # trace[5].val

\* the conflicts the CA answered account creation with
Conflicts == {i \in CallsOf(trace, "new_account") : trace[i].res = "conflict"}
Queries == CallsOf(trace, "query_registration")

C4_RegisterRetries ==
    (/\ op = "register_account"
     /\ pc = "done"
     /\ result.kind = "AcmeError"
     /\ \E i \in CallsOf(trace, "new_account") :
            trace[i].res \in {"acme_err", "other_err"})
    => /\ Cardinality(CallsOf(trace, "new_account")) = 3
       /\ Cardinality(Sleeps(trace)) = 2

Polls == CallsOf(trace, "poll_authorizations")

\* C5: a poll that reports a permanent validation failure ends
\* poll_until_valid with AcmeError at once, no sleep and no poll following
\* it; a sleep follows only a poll that reported "not yet valid", lasts
\* exactly interval_seconds and leads back to the loop.
C5_PollFailsFast ==
    op = "poll_until_valid" =>
        \A i \in 1..Len(trace) :
            /\ (trace[i].kind = "call" /\ trace[i].res = "invalid")
               => /\ i = Len(trace)
                  /\ pc = "done"
                  /\ result = AcmeError("ACME validation failed", 0, trace[i].val)
            /\ trace[i].kind = "sleep"
               => /\ i > 1
                  /\ trace[i - 1].kind = "call"
                  /\ trace[i - 1].res = "pending"
                  /\ trace[i].d = interval_seconds
                  /\ i = Len(trace) =>
                        \/ pc \in {"poll_check", "poll_call"}
                        \/ pc = "done" /\ result.val = "did not reach valid status within"
            /\ (trace[i].kind = "call" /\ trace[i].res = "pending")
               => IF i = Len(trace)
                  THEN pc = "poll_sleep"
                  ELSE trace[i + 1].kind = "sleep"

C5_Witness ==
    /\ op = "poll_until_valid"
    /\ pc = "done"
    /\ Len(trace) = 3
    /\ trace[1].res = "pending"
    /\ trace[2].kind = "sleep"
    /\ trace[3].res = "invalid"
    /\ result.kind = "AcmeError"

\* every poll of the call so far reported "not yet valid"
AllPollsPending == \A i \in Polls : trace[i].res = "pending"

\* C6: poll_until_valid started with a positive timeout ends; against a CA
\* that reports "not yet valid" on every poll it ends by raising the timeout
\* AcmeError, never by returning, and by then has slept interval_seconds at
\* least once, also when the interval exceeds the timeout.
C6_PollTimesOut ==
    (pc = "poll_check" /\ trace = <<>> /\ timeout_seconds > 0)
    ~> (/\ pc = "done"
        /\ op = "poll_until_valid"
        /\ AllPollsPending
           => /\ result = AcmeError("did not reach valid status within", timeout_seconds, "none")
              /\ \E i \in Sleeps(trace) : trace[i].d = interval_seconds)

C6_Witness ==
    /\ op = "poll_until_valid"
    /\ pc = "done"
    /\ timeout_seconds = 1
    /\ interval_seconds = 7
    /\ AllPollsPending
    /\ result.kind = "AcmeError"
    /\ Sleeps(trace) # {}

\* C7: poll_until_valid returns only after a poll that reported all
\* authorizations valid; no poll starts once the clock has reached the
\* deadline (start + timeout_seconds); when the loop finds the deadline
\* reached and no poll was valid the call raises the timeout error; with a
\* timeout of 0 the CA is never polled.
C7_PollDeadline ==
    (op = "poll_until_valid" /\ acme_client # "none") =>
        \* the call started at clock value 0
        /\ deadline = 0 + timeout_seconds
        /\ \A i \in Polls : trace[i].at < deadline
        /\ timeout_seconds = 0 => trace = <<>>
        /\ (pc = "done" /\ result.kind = "return")
           => /\ trace # <<>>
              /\ trace[Len(trace)].kind = "call"
              /\ trace[Len(trace)].res = "valid"
        /\ (pc = "done" /\ AllPollsPending)
           => /\ result = AcmeError("did not reach valid status within", timeout_seconds, "none")
              /\ now >= deadline
        /\ (pc = "done" /\ result.val = "did not reach valid status within")
           => /\ now >= deadline
              /\ AllPollsPending

C7_Witness ==
    /\ op = "poll_until_valid"
    /\ pc = "done"
    /\ result.val = "did not reach valid status within"
    /\ Cardinality(Polls) = 2
    /\ now > deadline

\* C8: finalize_order submits the CSR to the CA's finalize endpoint once
\* per call and never again, whatever that submission's outcome: a finalize
\* timeout or any other failure is raised as AcmeError at once, with no
\* retry and no sleep.  (A client that was never initialised raises before
\* anything is submitted.)
C8_FinalizeOnce ==
    op = "finalize_order" =>
        /\ Sleeps(trace) = {}
        /\ Cardinality(Calls(trace)) <= 1
        /\ (pc = "done" /\ acme_client # "none")
           => /\ Len(trace) = 1
              /\ trace[1].fn = "finalize_order"
              /\ CASE trace[1].res = "ok" -> result = Return(trace[1].val)
                   [] trace[1].res = "timeout" ->
                        result = AcmeError("ACME order finalization timed out", 0, "none")
                   [] OTHER ->
                        result = AcmeError("Failed to finalize ACME order", 0, trace[1].val)
        /\ (pc = "done" /\ acme_client = "none")
           => trace = <<>> /\ result.kind = "AcmeError"

C8_Witness ==
    /\ op = "finalize_order"
    /\ pc = "done"
    /\ Len(trace) = 1
    /\ trace[1].res = "timeout"
    /\ result.kind = "AcmeError"

\* the authorizations of the order that match the domain and carry an
\* HTTP-01 challenge, and the HTTP-01 challenges of an authorization
Http01Of(authzr) ==
    {j \in 1..Len(authzr.challenges) : authzr.challenges[j].type = "http-01"}
Answerable ==
    {i \in 1..Len(order) : order[i].identifier = domain /\ Http01Of(order[i]) # {}}
Least(S) == CHOOSE x \in S : \A y \in S : x <= y

\* C9: get_http01_challenge makes no CA call and no sleep; it raises
\* AcmeError when no authorization of the order matches the domain or none
\* that matches carries an HTTP-01 challenge; otherwise it returns the token
\* of the first HTTP-01 challenge of the first such authorization together
\* with token + "." + thumbprint of the account key, so the pair is a
\* function of the order, the domain and the account key.
C9_ChallengeExtraction ==
    (op = "get_http01_challenge" /\ pc = "done") =>
        /\ trace = <<>>
        /\ account_key # "none" =>
            IF Answerable = {}
            THEN /\ result.kind = "AcmeError"
                 /\ result.val = "No HTTP-01 challenge found for domain"
            ELSE LET a == order[Least(Answerable)]
                     c == a.challenges[Least(Http01Of(a))]
                 IN  /\ result.kind = "return"
                     /\ result.val[1] = c.token
                     /\ result.val[2] =
                           c.token \o "." \o (IF account_key = "k1" THEN "thumb1" ELSE "thumb2")

C9_Witness ==
    /\ op = "get_http01_challenge"
    /\ pc = "done"
    /\ Len(order) = 2
    /\ order[1].identifier = domain
    /\ order[2].identifier = domain
    /\ Http01Of(order[1]) = {}
    /\ Len(order[2].challenges) = 2
    /\ Http01Of(order[2]) = {2}
    /\ result.kind = "return"
    /\ result.val = <<"tokB", "tokB.thumb2">>

\* C10: answer_challenge on a challenge that is not HTTP-01 raises AcmeError
\* without contacting the CA and without sleeping; on an HTTP-01 challenge
\* the CA is notified under the back-off policy: at least once, at most 3
\* times, a sleep of 10*2^(i-1) seconds after the i-th failed attempt.
C10_AnswerChallenge ==
    op = "answer_challenge" =>
        /\ challb # "http-01"
           => /\ trace = <<>>
              /\ pc = "done"
              /\ result.kind = "AcmeError"
        /\ Cardinality(CallsOf(trace, "answer_challenge")) <= 3
        /\ \A i \in 1..Len(trace) :
            IF i % 2 = 1
            THEN trace[i].kind = "call" /\ trace[i].fn = "answer_challenge"
            ELSE /\ trace[i].kind = "sleep"
                 /\ trace[i].d = 10 * (2 ^ ((i \div 2) - 1))
                 /\ trace[i - 1].res = "acme_err"
        /\ (challb = "http-01" /\ acme_client # "none" /\ pc = "done")
           => CallsOf(trace, "answer_challenge") # {}

C10_Witness ==
    /\ op = "answer_challenge"
    /\ pc = "done"
    /\ challb = "dns-01"
    /\ acme_client # "none"
    /\ account_key # "none"
    /\ trace = <<>>
    /\ result = AcmeError("Expected HTTP01 challenge", 0, "none")

\* ---- C11
\* Whenever the account key file exists, its mode is 0600: no access for
\* group or others, in every state, the states between write_bytes and
\* chmod included.
C11_KeyFileOwnerOnly ==
    keyfile.exists => keyfile.mode = "0600"

\* ---- C12
\* the CA accepted the registration: new_account returned, or it reported a
\* conflict and query_registration returned
Registered ==
    \/ \E i \in CallsOf(trace, "new_account") : trace[i].res = "ok"
    \/ \E i \in Queries : trace[i].res = "ok"

\* When register_account is over: a key file that was there when it started
\* is as it was (content, modification time, mode) and, if it holds an RSA
\* key, the client registered with that key; when there was no file, there
\* is one now, written once, with mode 0600, holding the key the client
\* registered with.  The call returns exactly when the CA accepted the
\* registration, and what it returns is the account URL.
C12_RegisterKeyFile ==
    (cmd = "idle" /\ op = "register_account" /\ pc = "done") =>
        /\ keyfile_before.exists =>
             /\ keyfile = keyfile_before
             /\ IsRSAKey(keyfile.content) => account_key = keyfile.content
        /\ ~keyfile_before.exists =>
             /\ keyfile.exists
             /\ keyfile.mode = "0600"
             /\ keyfile.mtime = keyfile_before.mtime + 1
             /\ IsRSAKey(keyfile.content)
             /\ account_key = keyfile.content
        /\ result.kind = "return" <=> Registered
        /\ result.kind = "return" =>
             /\ result.val \in Urls
             /\ result.val = net_account

\* register_account has run twice: the first run created the key file, the
\* second found it, left it alone and returned the account URL
C12_Witness ==
    /\ cmd = "idle"
    /\ op = "register_account"
    /\ pc = "done"
    /\ keyfile_before.exists
    /\ keyfile_before.mtime = 1
    /\ keyfile = keyfile_before
    /\ keyfile.mode = "0600"
    /\ account_key = keyfile.content
    /\ result.kind = "return"

\* ---- C13
\* (as stated) Once the key file exists, its content is its content at
\* creation, whatever runs of init and register_account followed.
C13_KeyNeverMutated ==
    keyfile.exists => keyfile.content = created

\* a step that changes the content or the modification time of the key file
KeyFileRewritten ==
    \/ keyfile'.content # keyfile.content
    \/ keyfile'.mtime # keyfile.mtime

\* An existing key file is rewritten only by the write step of an init run
\* whose overwrite prompt was confirmed; register_account never rewrites it.
\* An init run whose prompt was declined ends with the file as it found it,
\* without any call to the CA, and returns.
C13_KeyMutatedOnlyByConfirmedInit ==
    /\ [][(keyfile.exists /\ KeyFileRewritten) =>
            (cmd = "init" /\ cpc = "init_write" /\ confirm = "yes")]_vars
    /\ []((cmd = "init" /\ cpc = "done" /\ confirm = "no") =>
            /\ keyfile = keyfile_before
            /\ trace = <<>>
            /\ cmd_result = CmdReturn("aborted"))

\* init has ended after a declined prompt, on a key file the tool itself
\* had created
C13_Witness ==
    /\ cmd = "init"
    /\ cpc = "done"
    /\ confirm = "no"
    /\ keyfile.mtime = 1
    /\ keyfile.content = created
    /\ keyfile = keyfile_before

\* ---- C14
\* the places of the configuration: <<i, j>> is domain j of gateway i
Positions == UNION {{<<i, j>> : j \in 1..Len(config[i].domains)} : i \in 1..Len(config)}
\* the domain entry at a place, as a target
TargetAt(p) == DomainTarget(config[p[1]].name, config[p[1]].domains[p[2]])
\* the places the filters of the command select
Selected ==
    {p \in Positions :
        /\ gateway_filter = "none" \/ config[p[1]].name = gateway_filter
        /\ domain_filter = "none" \/ config[p[1]].domains[p[2]] = domain_filter}
\* configuration order
Before(q, p) == q[1] < p[1] \/ (q[1] = p[1] /\ q[2] < p[2])
Rank(p) == Cardinality({q \in Selected : Before(q, p)}) + 1
\* seq holds the selected entries, each once, in configuration order
InConfigOrder(seq) ==
    /\ Len(seq) = Cardinality(Selected)
    /\ \A p \in Selected : seq[Rank(p)] = TargetAt(p)
\* the lines echoed so far with a given tag
Tagged(tag) == {k \in 1..Len(echoed) : echoed[k].tag = tag}

\* A run of issue that is not a dry run: while the loop runs, the targets
\* passed to _issue_single_domain so far are the first idx - 1 targets, each
\* once and in order, whatever their outcomes were, and every one of them is
\* counted as succeeded or failed; when the run is over, the targets passed
\* are the selected entries of the configuration in configuration order,
\* succeeded + failed = total = their number, and IssueError is raised
\* exactly when failed > 0.
C14_IssueEveryTarget ==
    (cmd = "issue" /\ ~dry_run /\ targets # <<>>) =>
        /\ issued = SubSeq(targets, 1, idx - 1)
        /\ succeeded = Cardinality(Tagged("OK"))
        /\ failed = Cardinality(Tagged("FAILED"))
        /\ succeeded + failed = idx - 1
        /\ cpc = "done" =>
             /\ InConfigOrder(issued)
             /\ succeeded + failed = Cardinality(Selected)
             /\ total = succeeded + failed
             /\ cmd_result.kind = "IssueError" <=> failed > 0
             /\ cmd_result.kind = "return" <=> failed = 0

\* a run over at least two targets is over: the first target failed, the
\* others were still attempted, and the command raised IssueError
C14_Witness ==
    /\ cmd = "issue"
    /\ cpc = "done"
    /\ ~dry_run
    /\ Len(targets) >= 2
    /\ echoed[1].tag = "FAILED"
    /\ Len(issued) = Len(targets)
    /\ cmd_result.kind = "IssueError"

\* ---- C15
\* the places of the configuration under the gateway named g
PlacesOf(g) == {p \in Positions : config[p[1]].name = g}

\* A run of issue with a gateway filter g and no domain filter that got
\* past the configuration: every target passed to _issue_single_domain is
\* a target of gateway g, each domain is passed as often as it is
\* configured under g, and when no target failed the summary has
\* total = succeeded = the number of domain entries of g and the command
\* returns.
C15_GatewayFilter ==
    (/\ cmd = "issue"
     /\ cpc = "done"
     /\ gateway_filter # "none"
     /\ domain_filter = "none"
     /\ ~dry_run
     /\ cmd_result # IssueError("Failed to load configuration")) =>
        /\ \A k \in 1..Len(issued) : issued[k].gateway_name = gateway_filter
        /\ \A d \in Domains :
             Cardinality({k \in 1..Len(issued) : issued[k].domain = d})
               = Cardinality({p \in PlacesOf(gateway_filter) : TargetAt(p).domain = d})
        /\ failed = 0 =>
             /\ total = Cardinality(PlacesOf(gateway_filter))
             /\ succeeded = total
             /\ cmd_result.kind = "return"

\* two gateways are configured, agw-alpha with two domains; issue
\* --gateway agw-alpha has ended with 2 domain(s), 2 succeeded, 0 failed
C15_Witness ==
    /\ cmd = "issue"
    /\ cpc = "done"
    /\ ~dry_run
    /\ gateway_filter = "agw-alpha"
    /\ domain_filter = "none"
    /\ Len(config) = 2
    /\ config[1].name = "agw-alpha"
    /\ config[2].name = "agw-beta"
    /\ Len(config[1].domains) = 2
    /\ config[2].domains # <<>>
    /\ Len(issued) = 2
    /\ total = 2
    /\ succeeded = 2
    /\ failed = 0
    /\ cmd_result.kind = "return"

\* ---- C16
\* In a dry run of issue, _issue_single_domain is never called, the client
\* makes no CA call and the key file and the client stay as they are; when
\* the run is over, one DRY-RUN line was echoed for every resolved target,
\* in order, each target is counted as succeeded, none as failed, and the
\* command returns.
C16_DryRun ==
    (cmd = "issue" /\ dry_run) =>
        /\ issued = <<>>
        /\ trace = <<>>
        /\ op = "idle"
        /\ keyfile = File("k1", "0600")
        /\ failed = 0
        /\ (cpc = "done" /\ targets # <<>>) =>
             /\ InConfigOrder(targets)
             /\ echoed = [k \in 1..Len(targets) |-> Echo("DRY-RUN", targets[k])]
             /\ succeeded = Len(targets)
             /\ total = Len(targets)
             /\ cmd_result.kind = "return"

\* a dry run over three targets has ended
C16_Witness ==
    /\ cmd = "issue"
    /\ cpc = "done"
    /\ dry_run
    /\ Len(targets) = 3
    /\ Len(echoed) = 3
    /\ succeeded = 3
    /\ cmd_result.kind = "return"

\* ---- C17
\* the listing of the gateway of target t is at hand and says that the
\* certificate expected for t is there, with a known expiry, and that it is
\* due: force is set or the days remaining are at most the threshold
DueForRenewal(t) ==
    /\ t.gateway_name \in DOMAIN cert_cache
    /\ LET e == cert_cache[t.gateway_name][DomainToCertName(t.domain)] IN
        /\ e.present
        /\ e.known
        /\ force \/ DaysRemaining(e.expiry, now) <= days

\* Every step of run_renew that ends the pass for a target hands the target
\* to _issue_single_domain exactly when its expected certificate is in the
\* gateway's listing with a known expiry and (force is set or the days
\* remaining are at most the threshold); in every other case (no listing,
\* certificate absent, expiry unknown, days remaining above the threshold
\* without force) the target is skipped and _issue_single_domain is not
\* called, with force as without.
C17_RenewDecision ==
    [][(cmd = "renew" /\ idx' = idx + 1) =>
          /\ DueForRenewal(targets[idx]) <=> issued' = Append(issued, targets[idx])
          /\ DueForRenewal(targets[idx]) =>
               /\ skipped' = skipped
               /\ renewed' + failed' = renewed + failed + 1
          /\ ~DueForRenewal(targets[idx]) =>
               /\ issued' = issued
               /\ skipped' = skipped + 1
               /\ renewed' = renewed
               /\ failed' = failed]_vars

\* without force, a certificate with exactly `days` days remaining has been
\* handed to _issue_single_domain
C17_Witness ==
    /\ cmd = "renew"
    /\ ~force
    /\ issued # <<>>
    /\ echoed # <<>>
    /\ echoed[Len(echoed)].tag \in {"RENEWED", "FAILED"}
    /\ LET t == issued[Len(issued)] IN
        /\ t.gateway_name \in DOMAIN cert_cache
        /\ LET e == cert_cache[t.gateway_name][DomainToCertName(t.domain)] IN
            /\ e.known
            /\ DaysRemaining(e.expiry, now) = days

Delegated == Tagged("RENEWED") \cup Tagged("FAILED")

C19_ListingFetchedOnce ==
    \A g \in GwNames :
        Cardinality({i \in 1..Len(fetched) : fetched[i] = g}) <= 1

\* ---- C20
\* _classify_status puts every days_remaining in exactly one of three
\* bands against the threshold 30: more than 30 is "valid", 1 to 30 is
\* "expiring_soon", 0 or less is "expired"; None is "valid".
C20_ClassifyStatus ==
    status # "none" =>
        /\ status \in {"valid", "expiring_soon", "expired"}
        /\ ~days_remaining.known => status = "valid"
        /\ days_remaining.known =>
             /\ status = "valid" <=> days_remaining.days > 30
             /\ status = "expiring_soon" <=> days_remaining.days \in 1..30
             /\ status = "expired" <=> days_remaining.days <= 0

\* a certificate with exactly 30 days remaining has been classified as
\* expiring soon
C20_Witness ==
    /\ status = "expiring_soon"
    /\ days_remaining = Days(30)
    /\ cert.known

\* --- azure_gateway

\* the gateway of the client as the control plane holds it, and as it held
\* it when the method was called
Current == arm[gw_name]
AtCall == arm_before[gw_name]

\* the method in progress got its gateway from the control plane
Fetched == Len(gtrace) >= 1 /\ gtrace[1].fn = "get" /\ gtrace[1].res = "ok"

\* the control-plane calls of the method that were pushes
PushesOf(t) == {i \in 1..Len(t) : t[i].fn = "begin_create_or_update"}

\* the certificate of the name in a gateway: its id, "none" without one,
\* "absent" when there is no certificate of the name
IdOf(gw, name) ==
    IF \E i \in 1..Len(gw.ssl_certificates) : gw.ssl_certificates[i].name = name
    THEN (CHOOSE c \in {gw.ssl_certificates[i] : i \in 1..Len(gw.ssl_certificates)} :
              c.name = name).id
    ELSE "absent"

\* C21: update_listener_certificate on a gateway that holds no listener of
\* the name, or no certificate of the name, or a certificate of the name
\* without id, ends with AzureGatewayError, has pushed nothing, and the
\* control plane holds what it held when the method was called.
C21_UpdateRejected ==
    (/\ gop = "update_listener_certificate"
     /\ gpc = "done"
     /\ Fetched
     /\ \/ gargs.listener_name \notin NamesOf(AtCall.http_listeners)
        \/ IdOf(AtCall, gargs.cert_name) \in {"absent", "none"})
    => /\ gresult.kind = "AzureGatewayError"
       /\ PushesOf(gtrace) = {}
       /\ arm = arm_before

\* an update naming a listener and a certificate that exist is rejected
\* because the certificate has no id
C21_Witness ==
    /\ gop = "update_listener_certificate"
    /\ gpc = "done"
    /\ Fetched
    /\ gargs.listener_name \in NamesOf(AtCall.http_listeners)
    /\ IdOf(AtCall, gargs.cert_name) = "none"
    /\ gresult.kind = "AzureGatewayError"
    /\ arm = arm_before

\* the certificates of gateway gw that listener ln references
ReferencedBy(gw, ln) ==
    {i \in 1..Len(gw.ssl_certificates) : gw.ssl_certificates[i].id = ln.ssl_certificate}

\* C22: at every moment the control plane holds listeners that reference
\* exactly one certificate of their gateway each.  While
\* update_listener_certificate(listener, cert) runs, and when it is over,
\* the control plane holds the listeners it held at the call, each with the
\* reference it had, except that the named listener may reference the named
\* certificate; it references the one it had as long as nothing has been
\* pushed, and the named one once the push has succeeded.
C22_ListenerAlwaysBound ==
    /\ \A g \in GwNames : \A i \in 1..Len(arm[g].http_listeners) :
          Cardinality(ReferencedBy(arm[g], arm[g].http_listeners[i])) = 1
    /\ gop = "update_listener_certificate" =>
          /\ Len(Current.http_listeners) = Len(AtCall.http_listeners)
          /\ Current.ssl_certificates = AtCall.ssl_certificates
          /\ \A i \in 1..Len(AtCall.http_listeners) :
               LET before == AtCall.http_listeners[i]
                   after == Current.http_listeners[i]
               IN  /\ after.name = before.name
                   /\ before.name # gargs.listener_name =>
                         after.ssl_certificate = before.ssl_certificate
                   /\ before.name = gargs.listener_name =>
                         /\ after.ssl_certificate \in
                               {before.ssl_certificate, IdOf(AtCall, gargs.cert_name)}
                         /\ PushesOf(gtrace) = {} =>
                               after.ssl_certificate = before.ssl_certificate
                         /\ (\E k \in PushesOf(gtrace) : gtrace[k].res = "ok") =>
                               after.ssl_certificate = IdOf(AtCall, gargs.cert_name)

\* an update has moved a listener from one certificate to another on a
\* gateway with a second listener
C22_Witness ==
    /\ gop = "update_listener_certificate"
    /\ gpc = "done"
    /\ gresult.kind = "return"
    /\ Len(AtCall.http_listeners) = 2
    /\ \E k \in PushesOf(gtrace) : gtrace[k].res = "ok"
    /\ \E i \in 1..Len(AtCall.http_listeners) :
          /\ AtCall.http_listeners[i].name = gargs.listener_name
          /\ AtCall.http_listeners[i].ssl_certificate # IdOf(AtCall, gargs.cert_name)
          /\ Current.http_listeners[i].ssl_certificate = IdOf(AtCall, gargs.cert_name)

\* the positions of a path map that hold a rule of another name
Others(map, name) == {i \in 1..Len(map) : map[i] # name}

\* path map `new` holds the rules of `orig` that are not of the name, in the
\* order they had, and nothing else
SameButFor(new, orig, name) ==
    /\ Len(new) = Cardinality(Others(orig, name))
    /\ \A i \in Others(orig, name) :
          new[Cardinality({h \in Others(orig, name) : h <= i})] = orig[i]

\* the path maps of a gateway that hold a rule of the name
MapsHolding(gw, name) ==
    {k \in 1..Len(gw.url_path_maps) :
        \E i \in 1..Len(gw.url_path_maps[k]) : gw.url_path_maps[k][i] = name}

\* C23: delete_routing_rule(name) on a gateway where some path map holds a
\* rule of the name pushes once; when the push has succeeded the method
\* returns and the control plane holds the same path maps, each with the
\* rules it had that are not of the name, in their order, and no rule of the
\* name; certificates and listeners are as they were.  On a gateway where no
\* path map holds the name the method raises AzureGatewayError, pushes
\* nothing and the control plane is as it was.
C23_DeleteRule ==
    (gop = "delete_routing_rule" /\ gpc = "done" /\ Fetched) =>
        IF MapsHolding(AtCall, gargs.rule_name) # {}
        THEN /\ Cardinality(PushesOf(gtrace)) = 1
             /\ (\E k \in PushesOf(gtrace) : gtrace[k].res = "ok") =>
                   /\ gresult.kind = "return"
                   /\ MapsHolding(Current, gargs.rule_name) = {}
                   /\ Len(Current.url_path_maps) = Len(AtCall.url_path_maps)
                   /\ \A k \in 1..Len(AtCall.url_path_maps) :
                         SameButFor(Current.url_path_maps[k],
                                    AtCall.url_path_maps[k], gargs.rule_name)
                   /\ Current.ssl_certificates = AtCall.ssl_certificates
                   /\ Current.http_listeners = AtCall.http_listeners
        ELSE /\ gresult.kind = "AzureGatewayError"
             /\ PushesOf(gtrace) = {}
             /\ arm = arm_before

\* a rule has been deleted from a path map that holds another rule after it
C23_Witness ==
    /\ gop = "delete_routing_rule"
    /\ gpc = "done"
    /\ gresult.kind = "return"
    /\ \E k \in PushesOf(gtrace) : gtrace[k].res = "ok"
    /\ \E k \in MapsHolding(AtCall, gargs.rule_name) :
          /\ Len(AtCall.url_path_maps[k]) = 2
          /\ AtCall.url_path_maps[k][1] = gargs.rule_name
          /\ Current.url_path_maps[k] = <<AtCall.url_path_maps[k][2]>>

\* a control-plane call of the method that failed: an error response, an
\* exception of another kind, the end of the 600 s
FailedCalls(t) == {i \in 1..Len(t) : t[i].res # "ok"}

\* C24: a method of the gateway client fetches the gateway exactly once, as
\* its first control-plane call, and pushes at most once, after the fetch;
\* no call follows a call that failed, and a call that ended in an
\* exception leaves the method as an exception (none is swallowed, none is
\* followed by another attempt).
C24_NoRetry ==
    /\ gop # "idle" =>
          /\ Len(gtrace) <= 2
          /\ \A i \in 1..Len(gtrace) : gtrace[i].fn = "get" <=> i = 1
          /\ \A i \in FailedCalls(gtrace) : i = Len(gtrace) /\ gpc = "done"
          /\ gop \in {"list_certificates", "get_certificate_expiry",
                      "list_acme_challenge_rules"} => PushesOf(gtrace) = {}
    /\ gpc \in {"body", "push", "done"} => Len(gtrace) >= 1
    /\ gpc = "done" =>
          \A i \in FailedCalls(gtrace) :
              gtrace[i].res \in {"HttpResponseError", "other_err"} =>
                  gresult.kind \in {"AzureGatewayError", "raw"}

\* a push answered with an error response has ended the method in
\* AzureGatewayError after one fetch and one push
C24_Witness ==
    /\ gpc = "done"
    /\ Len(gtrace) = 2
    /\ gtrace[2].res = "HttpResponseError"
    /\ gresult.kind = "AzureGatewayError"

\* C25: a method of the gateway client one of whose control-plane calls
\* failed (an error response, a transport error, the end of the 600 s of a
\* push) ends in AzureGatewayError naming the gateway.
C25_AllFailuresTranslated ==
    (gpc = "done" /\ FailedCalls(gtrace) # {}) =>
        /\ gresult.kind = "AzureGatewayError"
        /\ gresult.gateway = gw_name

\* --- cleanup_command

\* the gateways the configuration names
Configured == {config[i].name : i \in 1..Len(config)}

\* a rule name with the reserved prefix
Reserved(name) ==
    Len(name) >= Len("acme-challenge-")
    /\ SubSeq(name, 1, Len("acme-challenge-")) = "acme-challenge-"
Unreserved(name) == ~Reserved(name)

\* a pass of cleanup in batch mode has come to its end, with the
\* configuration loaded and every control-plane call of it successful
BatchPassOver ==
    /\ cmd = "cleanup"
    /\ cpc = "done"
    /\ cleanup_all
    /\ gw_idx > 0
    /\ ~ctrace.failed

\* C26: a pass of cleanup in batch mode all of whose control-plane calls
\* succeed ends without error, whatever rules the path maps of the
\* configured gateways held; after it no path map of a configured gateway
\* holds a rule with the reserved prefix, and every path map holds the
\* rules without the prefix that it held, in their order.
C26_BatchCleanupRemovesAll ==
    BatchPassOver =>
        /\ cmd_result.kind = "return"
        /\ \A g \in Configured : \A k \in 1..Len(arm[g].url_path_maps) :
              SelectSeq(arm[g].url_path_maps[k], Reserved) = <<>>
        /\ \A g \in GwNames :
              /\ Len(arm[g].url_path_maps) = Len(pass_start[g].url_path_maps)
              /\ \A k \in 1..Len(arm[g].url_path_maps) :
                    SelectSeq(arm[g].url_path_maps[k], Unreserved)
                    = SelectSeq(pass_start[g].url_path_maps[k], Unreserved)

\* C27: a pass of cleanup in batch mode that follows a pass in batch mode,
\* the gateways untouched in between and every control-plane call of both
\* successful, finds no rule, deletes none, pushes nothing, leaves the
\* gateways as the first pass left them and ends with the message that
\* there are no orphaned rules.
C27_SecondPassFindsNothing ==
    (/\ BatchPassOver
     /\ last_pass.ran
     /\ last_pass.clean)
    => /\ total_found = 0
       /\ total_removed = 0
       /\ ctrace.pushes = 0
       /\ arm = pass_start
       /\ cmd_result = CmdReturn("No orphaned ACME challenge rules found.")

\* --- azure-function responder

\* C30: every request GET /.well-known/acme-challenge/{token} is answered
\* from the application setting alone: when the setting holds a
\* key-authorization (it is set and not empty) with status 200, content type
\* text/plain and the setting as body, otherwise with status 404; two
\* requests made under the same setting get the same answer whatever their
\* tokens.
C30_Responder ==
    /\ \A i \in 1..Len(served) :
          IF served[i].setting \in KeyAuthorizations
          THEN /\ served[i].response.status_code = 200
               /\ served[i].response.mimetype = "text/plain"
               /\ served[i].response.body = served[i].setting
          ELSE served[i].response.status_code = 404
    /\ \A i, j \in 1..Len(served) :
          served[i].setting = served[j].setting =>
              served[i].response = served[j].response

\* a request was answered with the key-authorization of another token's
\* challenge, and one made under an empty setting with 404
C30_Witness ==
    \E i, j \in 1..Len(served) :
        /\ served[i].setting = "tok1.thumb"
        /\ served[i].token = "tok2"
        /\ served[i].response.status_code = 200
        /\ served[j].setting = ""
        /\ served[j].response.status_code = 404

\* the pipeline has just run its step name
JustRan(name) ==
    /\ Len(steps') = Len(steps) + 1
    /\ steps'[Len(steps')].name = name

\* C28: when the pipeline of a target notifies the CA (answerChallenge), it
\* has published the key-authorization and created the routing rule of the
\* domain: the responder answers every token with the key-authorization and
\* the rule is on the gateway of the target
C28_AnswerAfterPublish ==
    [][JustRan("answer_challenge") =>
        /\ \E j \in 1..Len(steps) : steps[j].name = "publish" /\ steps[j].ok
        /\ key_auth \in KeyAuthorizations
        /\ \A token \in PathTokens :
            Responder(token, app_setting) = HttpResponse(200, key_auth, "text/plain")
        /\ HasRule(arm[targets[idx].gateway_name], RuleFor(targets[idx].domain))
      ]_vars

\* a pipeline has notified the CA
C28_Witness ==
    \E i \in 1..Len(steps) : steps[i].name = "answer_challenge" /\ steps[i].ok

\* the steps of 1 to 9 that failed in the pipeline that is over
FailedBeforeCleanup ==
    {i \in 1..Len(steps) : ~steps[i].ok /\ steps[i].name # "remove_rule"}

\* C29: when the pipeline of a target is over, a failure of one of steps 1
\* to 9 was its last step and the target is counted as failed; otherwise
\* all ten steps ran and the target is counted as succeeded, also when
\* step 10 failed
C29_FailureCounting ==
    [][(cpc \in {"pipeline_returned", "pipeline_raised"} /\ cpc' = "issue_loop") =>
        IF FailedBeforeCleanup # {}
        THEN /\ FailedBeforeCleanup = {Len(steps)}
             /\ failed' = failed + 1
             /\ succeeded' = succeeded
             /\ echoed'[Len(echoed')] = Echo("FAILED", targets[idx])
        ELSE /\ Len(steps) = 10
             /\ succeeded' = succeeded + 1
             /\ failed' = failed
             /\ echoed'[Len(echoed')] = Echo("OK", targets[idx])
      ]_vars

\* a target whose steps 1 to 9 succeeded and whose step 10 failed has been
\* counted as succeeded
C29_Witness ==
    /\ cpc = "issue_loop"
    /\ Len(steps) = 10
    /\ \A i \in 1..9 : steps[i].ok
    /\ ~steps[10].ok
    /\ echoed # <<>>
    /\ echoed[Len(echoed)].tag = "OK"
    /\ succeeded > 0

\* the public operations of AcmeClient (_with_retry on its own is a helper)
ClientOps ==
    {"register_account", "new_order", "get_http01_challenge",
     "answer_challenge", "poll_until_valid", "finalize_order"}

\* C32: an operation of AcmeClient that is over has returned or has raised
\* AcmeError with a message naming what failed: no exception of another
\* kind reaches the caller
C32_EveryFailureIsAcmeError ==
    (pc = "done" /\ op \in ClientOps) =>
        \/ result.kind = "return"
        \/ result.kind = "AcmeError" /\ result.val # "none"

\* register_account has set neither the key nor the CA handle
Unregistered == acme_client = "none" /\ account_key = "none"

\* C33: an operation other than register_account that is called on an
\* unregistered client is over at once with AcmeError: 'no account key'
\* from get_http01_challenge, 'not initialised' from the others; no call to
\* the CA is made and the client and the key file are as before
C33_UnregisteredRefused ==
    [][(pc = "idle" /\ Unregistered /\ op' \in ClientOps \ {"register_account"}) =>
        /\ pc' = "done"
        /\ result' = IF op' = "get_http01_challenge"
                     THEN AcmeError("no account key", 0, "none")
                     ELSE AcmeError("not initialised", 0, "none")
        /\ trace' = <<>>
        /\ clientVars' = clientVars
        /\ keyfile' = keyfile
        /\ now' = now
      ]_vars

\* new_order has been refused on an unregistered client
C33_Witness ==
    /\ pc = "done"
    /\ op = "new_order"
    /\ Unregistered
    /\ result.kind = "AcmeError"
    /\ trace = <<>>

\* C34: in new_order a CA call that raises an exception other than an
\* acme.errors.Error is the last event of the operation, which ends with
\* AcmeError 'Failed to create ACME order' naming the exception; a sleep
\* follows only a call that raised an acme.errors.Error, and a further call
\* follows only a sleep
C34_OtherErrorNotRetried ==
    op = "new_order" =>
        /\ \A i \in Calls(trace) :
            trace[i].res = "other_err" =>
                /\ i = Len(trace)
                /\ pc = "done"
                /\ result = AcmeError("Failed to create ACME order", 0, trace[i].val)
        /\ \A i \in Sleeps(trace) :
            i > 1 /\ trace[i - 1].kind = "call" /\ trace[i - 1].res = "acme_err"
        /\ \A i \in Calls(trace) : i > 1 => trace[i - 1].kind = "sleep"

\* the first call of new_order to the CA raised an exception of another
\* kind: one call, no sleep
C34_Witness ==
    /\ op = "new_order"
    /\ pc = "done"
    /\ trace # <<>>
    /\ trace[1].res = "other_err"
    /\ Len(trace) = 1
    /\ result.kind = "AcmeError"

\* register_account has raised AcmeError from the except clauses around
\* new_account
RegistrationFailed ==
    /\ pc = "done"
    /\ op = "register_account"
    /\ result.kind = "AcmeError"
    /\ result.val = "Failed to register ACME account"

\* the client holds a key and a CA handle, and no account: the last
\* register_account got its directory and did not get an account
HalfRegistered ==
    /\ account_key # "none"
    /\ acme_client = "client"
    /\ net_account = "none"

\* C37: when register_account fails at new_account, the key and the CA
\* handle are already installed; new_order on such a client is not refused
\* as 'not initialised' but goes on to the CA call
C37_InitialisedAfterFailedRegistration ==
    [][/\ RegistrationFailed => HalfRegistered
       /\ (pc = "idle" /\ HalfRegistered /\ op' = "new_order") =>
            (pc' = "retry_call" /\ result'.kind # "AcmeError")
       /\ (op = "new_order" /\ pc = "retry_call") =>
            /\ Len(trace') = Len(trace) + 1
            /\ trace'[Len(trace')].kind = "call"
            /\ trace'[Len(trace')].fn = "new_order"
      ]_vars

\* new_order has called the CA on a client whose registration failed
C37_Witness ==
    /\ op = "new_order"
    /\ HalfRegistered
    /\ CallsOf(trace, "new_order") # {}

\* the run of init in progress has written a new key over the key file as
\* it found it
NewKeyWritten ==
    /\ keyfile.exists
    /\ keyfile.mtime = keyfile_before.mtime + 1
    /\ keyfile.content \in Keys
    /\ keyfile.content # keyfile_before.content
    /\ keyfile_before.exists => confirm = "yes"

\* C38: when run_init reads the configuration and while it registers, the
\* new key is on disk and no call to the CA was made before the
\* configuration was read; when it ends with InitError from the
\* configuration or from the registration, the new key is still there, in
\* the place of a key that existed before
C38_KeyWrittenFirst ==
    cmd = "init" =>
        /\ cpc \in {"init_config", "init_client", "init_register",
                    "init_registering"} => NewKeyWritten
        /\ cpc \in {"init_write", "init_chmod", "init_config"} => trace = <<>>
        /\ (/\ cpc = "done"
            /\ cmd_result.kind = "InitError"
            /\ cmd_result.val \in {"Failed to load configuration",
                                   "ACME registration failed"})
              => NewKeyWritten

\* init has replaced a key after a confirmed prompt and failed at the
\* registration
C38_Witness ==
    /\ cmd = "init"
    /\ cpc = "done"
    /\ cmd_result.kind = "InitError"
    /\ cmd_result.val = "ACME registration failed"
    /\ keyfile_before.exists
    /\ keyfile.content # keyfile_before.content

\* renew has decided on the entry and status has classified it
BothDecided ==
    /\ cert.known
    /\ status # "none"
    /\ cmd = "renew"
    /\ idx > Len(targets)

\* C39: on an entry with a known expiry, at the same instant and with the
\* default threshold, renew hands the domain to issuance exactly when
\* status says 'expiring_soon' or 'expired' and skips it exactly when
\* status says 'valid'; the days remaining of both are the whole days of
\* expiry - now, rounded down
C39_RenewAgreesWithStatus ==
    BothDecided =>
        /\ issued # <<>> <=> status \in {"expiring_soon", "expired"}
        /\ skipped = 1 <=> status = "valid"
        /\ issued = <<>> <=> skipped = 1
        /\ days_remaining.known
        /\ days_remaining.days = DaysRemaining(cert.expiry, now)
        /\ days_remaining.days * TicksPerDay <= cert.expiry - now
        /\ cert.expiry - now < (days_remaining.days + 1) * TicksPerDay

\* both have decided on a certificate that expires in exactly 30 days:
\* status says 'expiring_soon' and renew has handed the domain over
C39_Witness ==
    /\ BothDecided
    /\ days_remaining.days = 30
    /\ status = "expiring_soon"
    /\ issued # <<>>

\* the step is a push of the method in progress that the control plane
\* accepted
PushAccepted ==
    /\ gpc = "push"
    /\ gpc' = "done"
    /\ gtrace'[Len(gtrace')].res = "ok"

\* configuration `after` is configuration `before` with the change the
\* method in progress makes, and no other
OnlyOwnChange(after, before) ==
    /\ after.ssl_certificates = before.ssl_certificates
    /\ IF gop = "delete_routing_rule"
       THEN /\ after.http_listeners = before.http_listeners
            /\ Len(after.url_path_maps) = Len(before.url_path_maps)
            /\ \A k \in 1..Len(before.url_path_maps) :
                  SameButFor(after.url_path_maps[k], before.url_path_maps[k],
                             gargs.rule_name)
       ELSE /\ after.url_path_maps = before.url_path_maps
            /\ Len(after.http_listeners) = Len(before.http_listeners)
            /\ \A i \in 1..Len(before.http_listeners) :
                  /\ after.http_listeners[i].name = before.http_listeners[i].name
                  /\ after.http_listeners[i].ssl_certificate =
                        IF i = FirstNamed(before.http_listeners, gargs.listener_name)
                        THEN IdOf(before, gargs.cert_name)
                        ELSE before.http_listeners[i].ssl_certificate

\* C35: when two writing invocations have fetched the same configuration
\* of a gateway and the first has pushed its change, the push of the second
\* is accepted and returns without error, and the control plane then holds
\* the configuration both fetched with the change of the second only: what
\* the first pushed is gone
C35_LastWriteWins ==
    [][(PushAccepted /\ other_write.done) =>
        /\ arm[gw_name] = other_write.gateway
        /\ gresult'.kind = "return"
        /\ arm'[gw_name] = gateway
        /\ OnlyOwnChange(arm'[gw_name], arm_before[gw_name])
      ]_vars

\* a method has returned after its push; the rule another invocation had
\* deleted in between is on the gateway again
C35_Witness ==
    /\ gpc = "done"
    /\ gresult.kind = "return"
    /\ other_write.done
    /\ \E k \in PushesOf(gtrace) : gtrace[k].res = "ok"
    /\ \E r \in RuleNames :
          /\ MapsHolding(other_write.gateway, r) = {}
          /\ MapsHolding(Current, r) # {}

\* run_cleanup takes back a call of the gateway client that ended with an
\* exception
FailedCallBack ==
    /\ cmd = "cleanup"
    /\ cpc \in {"listing", "deleting"}
    /\ gpc = "done"
    /\ gresult.kind # "return"
    /\ cpc' # cpc

\* C36: when a list or delete call of run_cleanup fails, run_cleanup ends
\* at once with CleanupError: the control plane keeps what it holds, so the
\* rules deleted before stay deleted, nothing more is counted as removed,
\* and no further call is made for this gateway or a later one
C36_StopsAtFirstFailure ==
    [][/\ FailedCallBack =>
            /\ cpc' = "done"
            /\ cmd_result'.kind = "CleanupError"
            /\ arm' = arm
            /\ total_removed' = total_removed
            /\ gw_idx' = gw_idx
            /\ rule_idx' = rule_idx
       /\ (cmd = "cleanup" /\ cpc = "done") =>
            (gop' = "idle" /\ arm' = arm)
      ]_vars

\* C31: a subcommand whose run ends on the unrecoverable failure of a
\* collaborator prints one "Error: ..." line and exits non-zero; the
\* failure never leaves the program as an unhandled exception
C31_EveryFailureHandled ==
    (cmd # "idle" /\ cpc = "done" /\ cmd_result.kind # "return") =>
        /\ ~CliExit(cmd, cmd_result).unhandled
        /\ CliExit(cmd, cmd_result).code # 0
        /\ SubSeq(CliExit(cmd, cmd_result).stderr, 1, 7) = "Error: "
====
